---- MODULE Spec2Model ----
(***************************************************************************)
(* Gesture-to-event pipeline of SILENT_ORCHSTRA.                           *)
(*                                                                         *)
(*   - trigger control utilities   src/utils/performanceMonitor.ts         *)
(*   - TwoHandGestureDetector      src/utils/handsGestures.ts              *)
(*   - Stage.processHand           src/components/Stage.tsx                *)
(*   - instrument gesture handlers src/unnamed/part_004                    *)
(*                                                                         *)
(* Times are integer milliseconds.  Positions are integers counted in      *)
(* 1/PosDen of the normalized screen, so every comparison of a velocity    *)
(* with a threshold is done exactly by cross-multiplication.               *)
(***************************************************************************)
EXTENDS Integers, Sequences, FiniteSets, TLC

VARIABLES
    now,            \* performance.now(), ms
    triggerStates,  \* Map<string, TriggerState>
    lastCall,       \* the last trigger-control call and what it returned
    accepted,       \* history: per id, time and class of the last canTrigger that returned true,
                    \* and how many did (counted up to 2)
    passed,         \* history: per id, the index passed to the last shouldRetrigger call
    bufHist,        \* history: per id, the contact-buffer calls made since the id was fresh
    trigObs,        \* history: the map before the last call, the ids cleared and not used
                    \* since, and per id the last shouldTriggerNote that returned true
    previousHand,       \* previousLeftHand / previousRightHand, by handedness
    previousFingerTips, \* previousFingerTips, by side and finger
    gestureData,        \* the TwoHandGestureData handed to the callback
    frames,             \* onResults calls made so far
    kinObs,             \* history: per hand of the last frame, the cached samples it met
    role,           \* Stage prop: the instrument role
    rev,            \* which revision of Stage.tsx runs: "current" or "earlier"
    wallNow,        \* Date.now(), ms
    handStates,     \* handStates.current: Map<HandIndex, HandState>
    stageFrames,    \* predictWebcam calls that ran a detection
    stageOut,       \* per hand index of the last frame, what processHand dispatched
    stageObs,       \* history: per hand index of the last frame, the state and sample it met
    triggerVisual,  \* React state: the flash shown on a hit
    isMuted,        \* React state: the mute indicator
    visualTimers,   \* pending setTimeout(() => setTriggerVisual(false), 100): their due times
    muteTimers,     \* pending setTimeout(() => setIsMuted(false), 150): their due times
    stageHist,      \* history: per hand index, the times of its last two dispatches
    perfNow,        \* performance.now(), ms
    lastHitTime,    \* DrumGestureHandler.lastHitTime
    drumCalls,      \* calls of DrumGestureHandler.process
    drumEvents,     \* the events returned by the last process call
    drumObs,        \* history: the input of the last process call and the hits before it
    activeKeys,     \* PianoGestureHandler.activeKeys
    pianoCalls,     \* calls of PianoGestureHandler.process
    pianoEvents,    \* the events returned by the last process call
    pianoObs,       \* history: the input of the last call and each key's last event
    lastStrumTime,  \* GuitarGestureHandler.lastStrumTime
    guitarRoles,    \* GuitarGestureHandler.strumHand and fretHand ("none": null)
    guitarCalls,    \* calls of GuitarGestureHandler.process
    guitarEvents,   \* the events returned by the last process call
    guitarObs,      \* history: the input of the last call and the fields before it
    theremin,       \* ThereminGestureHandler: isPlaying, lastPitch, lastVolume
    thereminCalls,  \* calls of ThereminGestureHandler.process
    thereminOut,    \* what the last process call returned
    thereminObs,    \* history: whether the last two frames had a hand
    strings,        \* StringsGestureHandler: isPlaying, lastIntensity
    stringsCalls,   \* calls of StringsGestureHandler.process
    stringsOut,     \* what the last process call returned
    stringsObs,     \* history: whether the last two frames had a hand
    pads,           \* PadsGestureHandler: isPlaying, lastPosition
    padsCalls,      \* calls of PadsGestureHandler.process
    padsOut,        \* what the last process call returned
    padsObs         \* history: the active flag of the last two frames, the last edge

trigVars == <<triggerStates, lastCall>>
trigHist == <<accepted, passed, bufHist, trigObs>>
kinVars == <<previousHand, previousFingerTips, gestureData, frames, kinObs>>

stageVars == <<role, rev, wallNow, handStates, stageFrames, stageOut, stageObs,
               triggerVisual, isMuted, visualTimers, muteTimers, stageHist>>

vars == <<now, triggerStates, lastCall, accepted, passed, bufHist, trigObs,
          previousHand, previousFingerTips, gestureData, frames, kinObs,
          role, rev, wallNow, handStates, stageFrames, stageOut, stageObs,
          triggerVisual, isMuted, visualTimers, muteTimers, stageHist,
          perfNow, lastHitTime, drumCalls, drumEvents, drumObs,
          activeKeys, pianoCalls, pianoEvents, pianoObs,
          lastStrumTime, guitarRoles, guitarCalls, guitarEvents, guitarObs,
          theremin, thereminCalls, thereminOut, thereminObs,
          strings, stringsCalls, stringsOut, stringsObs,
          pads, padsCalls, padsOut, padsObs>>

drumVars == <<perfNow, lastHitTime, drumCalls, drumEvents>>

\* the state of the other gesture handlers and the handlers' history
pianoVars == <<activeKeys, pianoCalls, pianoEvents, pianoObs>>
guitarVars == <<lastStrumTime, guitarRoles, guitarCalls, guitarEvents, guitarObs>>
thereminVars == <<theremin, thereminCalls, thereminOut, thereminObs>>
stringsVars == <<strings, stringsCalls, stringsOut, stringsObs>>
padsVars == <<pads, padsCalls, padsOut, padsObs>>
gestVars == <<drumObs, pianoVars, guitarVars, thereminVars, stringsVars, padsVars>>

-----------------------------------------------------------------------------
(* Bounds of the model *)

\* the clock stops advancing here
MaxNow == 300
\* discrete indices passed to shouldRetrigger are 0..MaxKey
MaxKey == 1
\* calls recorded in bufHist per identifier
MaxHist == 5
\* frames delivered to the detector
MaxFrames == 3
\* frames delivered to the Stage
MaxStageFrames == 3
\* Date.now() when the Stage is mounted
StageEpoch == 2000
\* calls of the drum handler
MaxDrumCalls == 3
\* performance.now() at the first call of a gesture handler
HandlerEpoch == 1000
\* calls of the piano handler
MaxPianoCalls == 3
\* calls of the guitar handler
MaxGuitarCalls == 3
\* calls of the theremin handler
MaxThereminCalls == 3
\* calls of the strings handler
MaxStringsCalls == 3
\* calls of the pads handler
MaxPadsCalls == 3
\* the time up to which resets are followed
ResetHorizon == 120

Ids == {"a", "b"}
KeyIdx == 0..MaxKey

-----------------------------------------------------------------------------
(* Trigger control: src/utils/performanceMonitor.ts *)

COOLDOWN_MS ==
    [ piano    |-> 50,
      drums    |-> 80,
      guitar   |-> 100,
      bass     |-> 120,
      theremin |-> 0,
      strings  |-> 150,
      pads     |-> 200,
      default  |-> 100 ]

BUFFER_SIZE == 3

\* lastKeyIndex: null
NoKey == -1

\* instrumentType arguments used by the callers of the model; "kazoo" is a key
\* COOLDOWN_MS does not have
Classes == {"piano", "drums", "theremin", "pads", "default", "kazoo"}

\* COOLDOWN_MS[instrumentType] || COOLDOWN_MS.default
\* (an undefined entry and the number 0 are both falsy)
CooldownOf(c) ==
    IF c \in DOMAIN COOLDOWN_MS /\ COOLDOWN_MS[c] # 0
    THEN COOLDOWN_MS[c]
    ELSE COOLDOWN_MS["default"]

FreshState ==
    [ lastTriggerTime |-> 0,
      lastKeyIndex    |-> NoKey,
      buffer          |-> [i \in 1..BUFFER_SIZE |-> FALSE] ]

\* Map.set
MapSet(m, id, v) == [x \in (DOMAIN m) \cup {id} |-> IF x = id THEN v ELSE m[x]]

\* Map.delete
MapDelete(m, id) == [x \in (DOMAIN m) \ {id} |-> m[x]]

EmptyMap == [x \in {} |-> FreshState]

\* getState: creates the entry on first reference
getState(m, id) == IF id \in DOMAIN m THEN m ELSE MapSet(m, id, FreshState)

\* The operations below are the exported functions as functions of the map and
\* the clock: each yields the map after the call (m) and the value returned (ret).

\* canTrigger that forgets to record the accepted trigger
canTrigger_NoRecord(m, id, c, t) ==
    LET m1 == getState(m, id)
    IN  [m |-> m1, ret |-> (t - m1[id].lastTriggerTime >= CooldownOf(c))]

canTrigger(m, id, c, t) ==
    LET m1 == getState(m, id)
        cooldown == CooldownOf(c)
    IN  IF t - m1[id].lastTriggerTime >= cooldown
        THEN [m |-> [m1 EXCEPT ![id].lastTriggerTime = t], ret |-> TRUE]
        ELSE [m |-> m1, ret |-> FALSE]

\* recordTrigger that stamps every identifier's entry
recordTrigger_Everyone(m, id, t) ==
    LET m1 == getState(m, id)
    IN  [m |-> [x \in DOMAIN m1 |-> [m1[x] EXCEPT !.lastTriggerTime = t]], ret |-> TRUE]

recordTrigger(m, id, t) ==
    LET m1 == getState(m, id)
    IN  [m |-> [m1 EXCEPT ![id].lastTriggerTime = t], ret |-> TRUE]

tryTrigger(m, id, c, t) ==
    LET r == canTrigger(m, id, c, t)
    IN  IF r.ret THEN [m |-> recordTrigger(r.m, id, t).m, ret |-> TRUE] ELSE r

\* shouldRetrigger that records the index only when it reports a change, and
\* compares with the first index ever seen
shouldRetrigger_KeepFirst(m, id, k) ==
    LET m1 == getState(m, id)
    IN  [m |-> IF m1[id].lastKeyIndex = NoKey
               THEN [m1 EXCEPT ![id].lastKeyIndex = k]
               ELSE m1,
         ret |-> (m1[id].lastKeyIndex # k)]

shouldRetrigger(m, id, k) ==
    LET m1 == getState(m, id)
    IN  [m |-> [m1 EXCEPT ![id].lastKeyIndex = k], ret |-> (m1[id].lastKeyIndex # k)]

shouldTriggerNote(m, id, k, c, t) ==
    LET m1 == getState(m, id)
        keyChanged == m1[id].lastKeyIndex # k
        r == canTrigger(m1, id, c, t)
    IN  IF keyChanged /\ r.ret
        THEN [m |-> [r.m EXCEPT ![id].lastKeyIndex = k, ![id].lastTriggerTime = t],
              ret |-> TRUE]
        ELSE [m |-> r.m, ret |-> FALSE]

\* updateBuffer that shifts before the length test, keeping two frames
updateBuffer_ShortWindow(m, id, isTouching) ==
    LET m1 == getState(m, id)
        pushed == Append(Tail(m1[id].buffer), isTouching)
    IN  [m |-> [m1 EXCEPT ![id].buffer = Tail(pushed)], ret |-> TRUE]

\* push, then shift while longer than BUFFER_SIZE
updateBuffer(m, id, isTouching) ==
    LET m1 == getState(m, id)
        pushed == Append(m1[id].buffer, isTouching)
        kept == IF Len(pushed) > BUFFER_SIZE THEN Tail(pushed) ELSE pushed
    IN  [m |-> [m1 EXCEPT ![id].buffer = kept], ret |-> TRUE]

isCleanTrigger(m, id) ==
    LET m1 == getState(m, id)
    IN  [m |-> m1, ret |-> ~(\E i \in DOMAIN m1[id].buffer : m1[id].buffer[i])]

\* shouldTriggerWithBuffer that does not consult the buffer
shouldTriggerWithBuffer_NoCleanCheck(m, id, isTouching, c, t) ==
    LET upd == updateBuffer(m, id, isTouching)
    IN  IF isTouching
        THEN canTrigger(upd.m, id, c, t)
        ELSE [m |-> upd.m, ret |-> FALSE]

\* isTouching && wasClean && canTrigger(...): canTrigger runs only when the
\* first two hold
shouldTriggerWithBuffer(m, id, isTouching, c, t) ==
    LET clean == isCleanTrigger(m, id)
        upd == updateBuffer(clean.m, id, isTouching)
    IN  IF isTouching /\ clean.ret
        THEN canTrigger(upd.m, id, c, t)
        ELSE [m |-> upd.m, ret |-> FALSE]

\* a reset that forgets the key and the buffer but keeps the trigger time
clearTriggerState_KeepsCooldown(m, id) ==
    [m |-> IF id \in DOMAIN m
           THEN MapSet(m, id, [FreshState EXCEPT !.lastTriggerTime = m[id].lastTriggerTime])
           ELSE m,
     ret |-> TRUE]

clearTriggerState(m, id) ==
    [m |-> MapDelete(m, id), ret |-> TRUE]

clearAllTriggerStates(m) == [m |-> EmptyMap, ret |-> TRUE]

Call(op, id, k, touch, c, ret) ==
    [op |-> op, id |-> id, key |-> k, touch |-> touch, cls |-> c, ret |-> ret]

NoCall == [op |-> "none", id |-> "a", key |-> NoKey, touch |-> FALSE,
           cls |-> "default", ret |-> FALSE]

\* One action per exported function.  They constrain triggerStates and lastCall;
\* the clock and the history variables are left to the specification.

CanTrigger(id, c) ==
    LET r == canTrigger(triggerStates, id, c, now)
    IN  /\ triggerStates' = r.m
        /\ lastCall' = Call("canTrigger", id, NoKey, FALSE, c, r.ret)

TryTrigger(id, c) ==
    LET r == tryTrigger(triggerStates, id, c, now)
    IN  /\ triggerStates' = r.m
        /\ lastCall' = Call("tryTrigger", id, NoKey, FALSE, c, r.ret)

RecordTrigger(id) ==
    LET r == recordTrigger(triggerStates, id, now)
    IN  /\ triggerStates' = r.m
        /\ lastCall' = Call("recordTrigger", id, NoKey, FALSE, "default", r.ret)

ShouldRetrigger(id, k) ==
    LET r == shouldRetrigger(triggerStates, id, k)
    IN  /\ triggerStates' = r.m
        /\ lastCall' = Call("shouldRetrigger", id, k, FALSE, "default", r.ret)

ShouldTriggerNote(id, k, c) ==
    LET r == shouldTriggerNote(triggerStates, id, k, c, now)
    IN  /\ triggerStates' = r.m
        /\ lastCall' = Call("shouldTriggerNote", id, k, FALSE, c, r.ret)

UpdateBuffer(id, touch) ==
    LET r == updateBuffer(triggerStates, id, touch)
    IN  /\ triggerStates' = r.m
        /\ lastCall' = Call("updateBuffer", id, NoKey, touch, "default", r.ret)

IsCleanTrigger(id) ==
    LET r == isCleanTrigger(triggerStates, id)
    IN  /\ triggerStates' = r.m
        /\ lastCall' = Call("isCleanTrigger", id, NoKey, FALSE, "default", r.ret)

ShouldTriggerWithBuffer(id, touch, c) ==
    LET r == shouldTriggerWithBuffer(triggerStates, id, touch, c, now)
    IN  /\ triggerStates' = r.m
        /\ lastCall' = Call("shouldTriggerWithBuffer", id, NoKey, touch, c, r.ret)

ClearTriggerState(id) ==
    LET r == clearTriggerState(triggerStates, id)
    IN  /\ triggerStates' = r.m
        /\ lastCall' = Call("clearTriggerState", id, NoKey, FALSE, "default", r.ret)

ClearAllTriggerStates ==
    LET r == clearAllTriggerStates(triggerStates)
    IN  /\ triggerStates' = r.m
        /\ lastCall' = Call("clearAllTriggerStates", "a", NoKey, FALSE, "default", r.ret)

\* performance.now() is monotonic: time passes between calls
Tick(d) ==
    /\ now + d <= MaxNow
    /\ now' = now + d

\* the history of a call op on id that returned ret: the map it met, its time, whether
\* id had been cleared and not used since, the ids in that condition after the
\* call with the lastTriggerTime each held when it was cleared, and the time
\* and index of the last shouldTriggerNote(id, ...) that returned true, before
\* and after the call
ObserveTrigger(op, id, k, ret) ==
    LET all == op = "clearAllTriggerStates"
        one == op = "clearTriggerState"
        held(x) == IF x \in DOMAIN triggerStates THEN triggerStates[x].lastTriggerTime ELSE 0
    IN  [before |-> triggerStates, at |-> now,
         wasCleared |-> (id \in trigObs.cleared),
         cleared |-> IF all THEN Ids
                     ELSE IF one THEN trigObs.cleared \cup {id}
                     ELSE trigObs.cleared \ {id},
         stale |-> [x \in Ids |-> IF all \/ (one /\ x = id) THEN held(x)
                                  ELSE trigObs.stale[x]],
         noteBefore |-> trigObs.note,
         note |-> IF op = "shouldTriggerNote" /\ ret
                  THEN [trigObs.note EXCEPT ![id] =
                           [t |-> now, key |-> k, n |-> IF @.n < 2 THEN @.n + 1 ELSE 2]]
                  ELSE trigObs.note]

InitTrigger ==
    /\ now = 0
    /\ triggerStates = EmptyMap
    /\ lastCall = NoCall
    /\ accepted = [id \in Ids |-> [t |-> 0, cls |-> "none", n |-> 0]]
    /\ passed = [id \in Ids |-> NoKey]
    /\ bufHist = [id \in Ids |-> <<>>]
    /\ trigObs = [before |-> EmptyMap, at |-> 0, wasCleared |-> FALSE, cleared |-> {},
                  stale |-> [id \in Ids |-> 0],
                  noteBefore |-> [id \in Ids |-> [t |-> 0, key |-> NoKey, n |-> 0]],
                  note |-> [id \in Ids |-> [t |-> 0, key |-> NoKey, n |-> 0]]]

-----------------------------------------------------------------------------
(* Kinematics: TwoHandGestureDetector, src/utils/handsGestures.ts *)

Sides == {"Left", "Right"}

\* the fingers the model follows, of thumb, index, middle, ring, pinky:
\* getFingerState runs the same code for each
Fingers == {"index", "pinky"}

\* landmark positions of the model, in 1/PosDen of the normalized screen
P0 == [x |-> 0, y |-> 0, z |-> 0]
P1 == [x |-> 3, y |-> 1, z |-> 2]
Points == {P0, P1}

\* A velocity is the vector (x, y, z) / den: a displacement in position units
\* over den milliseconds.  An acceleration is (x, y, z) / den in position units
\* per millisecond squared.  The zero vector is kept with den = 1.
Zero == [x |-> 0, y |-> 0, z |-> 0, den |-> 1]

Vec(x, y, z, den) ==
    IF x = 0 /\ y = 0 /\ z = 0 THEN Zero
    ELSE [x |-> x, y |-> y, z |-> z, den |-> den]

\* (cur - prev) / dt
Velocity(cur, prev, dt) == Vec(cur.x - prev.x, cur.y - prev.y, cur.z - prev.z, dt)

\* (v1 - v0) / dt
Acceleration(v1, v0, dt) ==
    Vec(v1.x * v0.den - v0.x * v1.den,
        v1.y * v0.den - v0.y * v1.den,
        v1.z * v0.den - v0.z * v1.den,
        v1.den * v0.den * dt)

\* dt < 0.5 (seconds) in getFingerState
FINGER_STALE_MS == 500

\* calculateVelocity: prev is the pair of previous-hand slots, t the clock.
\* Of the cached landmarks only the wrist is ever read.
calculateVelocity(prev, side, wrist, t) ==
    IF side \notin DOMAIN prev
    THEN [prev |-> MapSet(prev, side, [wrist |-> wrist, velocity |-> Zero, timestamp |-> t]),
          ret |-> Zero]
    ELSE LET dt == t - prev[side].timestamp
             v == Velocity(wrist, prev[side].wrist, dt)
         IN  IF dt = 0 THEN [prev |-> prev, ret |-> prev[side].velocity]
             ELSE [prev |-> [prev EXCEPT ![side] = [wrist |-> wrist, velocity |-> v, timestamp |-> t]],
                   ret |-> v]

\* calculateAcceleration: it calls calculateVelocity a second time, and measures
\* against the snapshot it read before that call
calculateAcceleration(prev, side, wrist, t) ==
    IF side \notin DOMAIN prev
    THEN [prev |-> prev, ret |-> Zero]
    ELSE LET previousHandData == prev[side]
             cur == calculateVelocity(prev, side, wrist, t)
             dt == t - previousHandData.timestamp
         IN  [prev |-> cur.prev,
              ret |-> IF dt = 0 THEN Zero
                      ELSE Acceleration(cur.ret, previousHandData.velocity, dt)]

\* getFingerState that measures the velocity across any gap
getFingerState_NoStaleTest(tips, side, finger, tip, t) ==
    LET has == finger \in DOMAIN tips[side]
        dt == IF has THEN t - tips[side][finger].timestamp ELSE 0
        velocity == IF has /\ dt > 0
                    THEN Velocity(tip, tips[side][finger].tip, dt)
                    ELSE Zero
    IN  [tips |-> [tips EXCEPT ![side] = MapSet(@, finger, [tip |-> tip, timestamp |-> t])],
         ret |-> [tip |-> tip, velocity |-> velocity]]

\* getFingerState: the velocity part (the extension flag reads no state)
getFingerState(tips, side, finger, tip, t) ==
    LET has == finger \in DOMAIN tips[side]
        dt == IF has THEN t - tips[side][finger].timestamp ELSE 0
        velocity == IF has /\ dt > 0 /\ dt < FINGER_STALE_MS
                    THEN Velocity(tip, tips[side][finger].tip, dt)
                    ELSE Zero
    IN  [tips |-> [tips EXCEPT ![side] = MapSet(@, finger, [tip |-> tip, timestamp |-> t])],
         ret |-> [tip |-> tip, velocity |-> velocity]]

\* detectFingerStates: getFingerState for each finger in turn
RECURSIVE detectFingerStates(_, _, _, _, _)
detectFingerStates(tips, side, todo, pose, t) ==
    IF todo = {} THEN [tips |-> tips, ret |-> [f \in {} |-> [tip |-> P0, velocity |-> Zero]]]
    ELSE LET f == CHOOSE g \in todo : TRUE
             one == getFingerState(tips, side, f, pose.tips[f], t)
             rest == detectFingerStates(one.tips, side, todo \ {f}, pose, t)
         IN  [tips |-> rest.tips, ret |-> MapSet(rest.ret, f, one.ret)]

\* the body of the forEach in onResults for one detected hand: the velocity is
\* computed at t, the acceleration and the finger states at t2 >= t
ProcessDetectedHand(st, side, pose, t, t2) ==
    LET v == calculateVelocity(st.prev, side, pose.wrist, t)
        a == calculateAcceleration(v.prev, side, pose.wrist, t2)
        f == detectFingerStates(st.tips, side, Fingers, pose, t2)
    IN  [prev |-> a.prev,
         tips |-> f.tips,
         hands |-> MapSet(st.hands, side,
                          [velocity |-> v.ret, acceleration |-> a.ret, fingers |-> f.ret])]

NoHands == [s \in {} |-> [velocity |-> Zero, acceleration |-> Zero,
                          fingers |-> [f \in {} |-> [tip |-> P0, velocity |-> Zero]]]]

\* the hand poses of the model: between them the wrist and the index tip move
\* and the pinky tip stays
PoseA == [wrist |-> P0, tips |-> [index |-> P0, pinky |-> P1]]
PoseB == [wrist |-> P1, tips |-> [index |-> P1, pinky |-> P1]]
Poses == {PoseA, PoseB}

\* what the pose tracker can deliver in a frame: for each hand, nothing or a pose
DetectedHands == UNION {[S -> Poses] : S \in SUBSET Sides}

\* time between the end of one callback and the start of the next
FrameSteps == {5, 500}

\* how far the clock may advance between two reads of performance.now()
\* made within one callback
ClockJitter == {0, 1}

\* onResults: a frame arrives d ms after the previous callback ended
OnResults(d, detected, eps) ==
    LET t == now + d
        t2 == t + eps
        st0 == [prev |-> previousHand, tips |-> previousFingerTips, hands |-> NoHands]
        st1 == IF "Left" \in DOMAIN detected
               THEN ProcessDetectedHand(st0, "Left", detected["Left"], t, t2)
               ELSE st0
        st2 == IF "Right" \in DOMAIN detected
               THEN ProcessDetectedHand(st1, "Right", detected["Right"], t, t2)
               ELSE st1
    IN  /\ frames < MaxFrames
        /\ frames' = frames + 1
        /\ \E st \in {st2} :
              /\ previousHand' = st.prev
              /\ previousFingerTips' = st.tips
              /\ gestureData' = [hands |-> st.hands, timestamp |-> t]
        /\ now' = t2

\* What a detected hand met in the caches when its frame arrived: whether the
\* hand slot and each finger slot were empty (first), and otherwise the cached
\* position (from) and the time elapsed since the cached timestamp (gap), the
\* hand's measured at the frame's first clock read t, a finger's at its own t2;
\* and the hand velocity the cache held (vel).
NoSample == [first |-> TRUE, from |-> P0, gap |-> 0]

Observe(side, t, t2) ==
    [hand |-> IF side \in DOMAIN previousHand
              THEN [first |-> FALSE, from |-> previousHand[side].wrist,
                    gap |-> t - previousHand[side].timestamp]
              ELSE NoSample,
     finger |-> [f \in Fingers |->
                   IF f \in DOMAIN previousFingerTips[side]
                   THEN [first |-> FALSE, from |-> previousFingerTips[side][f].tip,
                         gap |-> t2 - previousFingerTips[side][f].timestamp]
                   ELSE NoSample],
     vel |-> IF side \in DOMAIN previousHand THEN previousHand[side].velocity ELSE Zero]

NoObs == [s \in {} |-> [hand |-> NoSample, finger |-> [f \in Fingers |-> NoSample],
                        vel |-> Zero]]

InitKinematics ==
    /\ previousHand = [s \in {} |-> [wrist |-> P0, velocity |-> Zero, timestamp |-> 0]]
    /\ previousFingerTips = [s \in {"Left", "Right"} |-> [f \in {} |-> [tip |-> P0, timestamp |-> 0]]]
    /\ gestureData = [hands |-> NoHands, timestamp |-> 0]
    /\ frames = 0
    /\ kinObs = NoObs

-----------------------------------------------------------------------------
(* Stage.processHand: src/components/Stage.tsx, the current revision (lines   *)
(* 1-485) and the earlier one (lines 488-922)                                 *)

Revisions == {"current", "earlier"}

\* positions are counted in 1/PosDen of the screen
PosDen == 10

\* config: thresholds in tenths of a screen height per second
StageConfig(r, v) ==
    CASE r = "DRUMS" ->
            [threshold10 |-> IF v = "current" THEN 24 ELSE 20,
             cooldown |-> IF v = "current" THEN 45 ELSE 80,
             triggerDir |-> "down", muteThreshold10 |-> 0]
      [] r = "PIANO" ->
            [threshold10 |-> 12, cooldown |-> 100, triggerDir |-> "down", muteThreshold10 |-> 0]
      [] r = "BASS" ->
            [threshold10 |-> 15, cooldown |-> 120, triggerDir |-> "both", muteThreshold10 |-> 0]
      [] r = "GUITAR" ->
            [threshold10 |-> 18, cooldown |-> 100, triggerDir |-> "both", muteThreshold10 |-> 40]
      [] OTHER ->
            [threshold10 |-> 15, cooldown |-> 150, triggerDir |-> "none", muteThreshold10 |-> 0]

\* if (timeDiff > 500): 250 in the earlier revision
StaleMs(v) == IF v = "current" THEN 500 ELSE 250

\* if (timeDiff < 10) return
NOISE_MS == 10

\* timestamp - state.lastNoteTime < 1500
MUTE_WINDOW_MS == 1500

Abs(n) == IF n < 0 THEN 0 - n ELSE n
Min(a, b) == IF a < b THEN a ELSE b
Max(a, b) == IF a < b THEN b ELSE a

\* |delta / timeDiff * 1000| > threshold, delta in position units and the
\* threshold in tenths
Faster(delta, timeDiff, threshold10) ==
    Abs(delta) * 1000 * 10 > threshold10 * timeDiff * PosDen

NoDispatch == [note |-> FALSE, mute |-> FALSE, net |-> FALSE, visual |-> FALSE]

\* the tracking-loss branch that also forgets the last trigger
recoverTrackingLoss_ClearsCooldown(hs, i, point, ts) ==
    [hs |-> [hs EXCEPT ![i].y = point.y, ![i].x = point.x,
                       ![i].lastFrameTime = ts, ![i].lastTrigger = 0],
     out |-> NoDispatch]

\* 1. tracking lost for too long: reset the physics and return
recoverTrackingLoss(hs, i, point, ts) ==
    [hs |-> [hs EXCEPT ![i].y = point.y, ![i].x = point.x, ![i].lastFrameTime = ts],
     out |-> NoDispatch]

\* the noise branch that returns after storing the sample
ignoreSample_UpdatesCache(hs, i, point, ts) ==
    [hs |-> [hs EXCEPT ![i].y = point.y, ![i].x = point.x, ![i].lastFrameTime = ts],
     out |-> NoDispatch]

\* 2. extremely small time step: return
ignoreSample(hs, i, point, ts) ==
    [hs |-> hs, out |-> NoDispatch]

\* a cooldown shared by the hands: any hand's last trigger holds back every hand
inCooldown_AnyHand(hs, i, ts, cooldown) ==
    \E j \in DOMAIN hs : ts - hs[j].lastTrigger < cooldown

\* 4. cooldown check (per hand): timestamp - state.lastTrigger < cooldown
inCooldown(hs, i, ts, cooldown) ==
    ts - hs[i].lastTrigger < cooldown

\* steps 3.-5. with the trigger time recorded only when the message was sent
measureAndTrigger_RecordsWhenSent(hs, r, v, i, point, ts, open) ==
    LET st == hs[i]
        timeDiff == ts - st.lastFrameTime
        deltaY == point.y - st.y
        deltaX == point.x - st.x
        cfg == StageConfig(r, v)
        moved == [hs EXCEPT ![i].y = point.y, ![i].x = point.x, ![i].lastFrameTime = ts]
        muting == /\ r = "GUITAR"
                  /\ cfg.muteThreshold10 > 0
                  /\ Faster(deltaX, timeDiff, cfg.muteThreshold10)
                  /\ (v = "current" => ts - st.lastNoteTime < MUTE_WINDOW_MS)
        isValidTrigger == \/ cfg.triggerDir = "down" /\ deltaY > 0
                          \/ cfg.triggerDir = "both"
    IN  IF inCooldown(hs, i, ts, cfg.cooldown)
        THEN [hs |-> moved, out |-> NoDispatch]
        ELSE IF muting
        THEN [hs |-> IF open THEN [moved EXCEPT ![i].lastTrigger = ts] ELSE moved,
              out |-> [note |-> FALSE, mute |-> TRUE, net |-> open, visual |-> FALSE]]
        ELSE IF Faster(deltaY, timeDiff, cfg.threshold10) /\ isValidTrigger
        THEN [hs |-> IF open THEN [moved EXCEPT ![i].lastTrigger = ts, ![i].lastNoteTime = ts]
                     ELSE moved,
              out |-> [note |-> TRUE, mute |-> FALSE, net |-> open, visual |-> TRUE]]
        ELSE [hs |-> moved, out |-> NoDispatch]

\* 3.-5. velocity, state update, cooldown check, guitar mute, vertical trigger;
\* open is whether the socket exists and is OPEN when the dispatch is made
measureAndTrigger(hs, r, v, i, point, ts, open) ==
    LET st == hs[i]
        timeDiff == ts - st.lastFrameTime
        deltaY == point.y - st.y
        deltaX == point.x - st.x
        cfg == StageConfig(r, v)
        moved == [hs EXCEPT ![i].y = point.y, ![i].x = point.x, ![i].lastFrameTime = ts]
        muting == /\ r = "GUITAR"
                  /\ cfg.muteThreshold10 > 0
                  /\ Faster(deltaX, timeDiff, cfg.muteThreshold10)
                  /\ (v = "current" => ts - st.lastNoteTime < MUTE_WINDOW_MS)
        isValidTrigger == \/ cfg.triggerDir = "down" /\ deltaY > 0
                          \/ cfg.triggerDir = "both"
    IN  IF inCooldown(hs, i, ts, cfg.cooldown)
        THEN [hs |-> moved, out |-> NoDispatch]
        ELSE IF muting
        THEN [hs |-> [moved EXCEPT ![i].lastTrigger = ts],
              out |-> [note |-> FALSE, mute |-> TRUE, net |-> open, visual |-> FALSE]]
        ELSE IF Faster(deltaY, timeDiff, cfg.threshold10) /\ isValidTrigger
        THEN [hs |-> IF v = "current"
                     THEN [moved EXCEPT ![i].lastTrigger = ts, ![i].lastNoteTime = ts]
                     ELSE [moved EXCEPT ![i].lastTrigger = ts],
              out |-> [note |-> TRUE, mute |-> FALSE, net |-> open, visual |-> TRUE]]
        ELSE [hs |-> moved, out |-> NoDispatch]

\* processHand(landmarks, handIndex, timestamp), point the tracked landmark
processHand(hs, r, v, i, point, ts, open) ==
    IF i \notin DOMAIN hs
    THEN [hs |-> MapSet(hs, i, [y |-> point.y, x |-> point.x, lastTrigger |-> 0,
                                lastNoteTime |-> 0, lastFrameTime |-> ts]),
          out |-> NoDispatch]
    ELSE LET timeDiff == ts - hs[i].lastFrameTime
         IN  IF timeDiff > StaleMs(v) THEN recoverTrackingLoss(hs, i, point, ts)
             ELSE IF timeDiff < NOISE_MS THEN ignoreSample(hs, i, point, ts)
             ELSE measureAndTrigger(hs, r, v, i, point, ts, open)

\* results.landmarks.forEach(processHand), every hand with the frame's timestamp
RECURSIVE processHands(_, _, _, _, _, _, _)
processHands(hs, r, v, i, landmarks, ts, open) ==
    IF i > Len(landmarks) THEN [hs |-> hs, out |-> [j \in {} |-> NoDispatch]]
    ELSE LET one == processHand(hs, r, v, i - 1, landmarks[i], ts, open)
             rest == processHands(one.hs, r, v, i + 1, landmarks, ts, open)
         IN  [hs |-> rest.hs, out |-> MapSet(rest.out, i - 1, one.out)]

\* tracked points of the model
SA == [x |-> 4, y |-> 4]
SB == [x |-> 4, y |-> 6]
SC == [x |-> 6, y |-> 6]
StagePoints == {SA, SB, SC}

\* results.landmarks of a frame: no hand, one hand anywhere, or two hands
\* moving up and down together
StageLandmarks ==
    {<<>>} \cup {<<p>> : p \in StagePoints} \cup {<<p, p>> : p \in {SA, SB}}

\* time between two detections
StageSteps == {5, 40, 260, 510}

StageRoles == {"DRUMS", "GUITAR", "NONE"}

NoHandState == [y |-> 0, x |-> 0, lastTrigger |-> 0, lastNoteTime |-> 0, lastFrameTime |-> 0]

\* setTimeout(() => setTriggerVisual(false), 100)
VISUAL_MS == 100

\* setTimeout(() => setIsMuted(false), 150)
MUTED_MS == 150

\* hand indices of a frame
HandIdx == {0, 1}

\* a dispatch that arms no timer
setTimeouts_Never(timers, n, due) ==
    timers

\* n calls of setTimeout in one frame, each due at the same time
setTimeouts(timers, n, due) ==
    timers \o [j \in 1..n |-> due]

\* the hand indices of a frame's results that dispatched what(out)
Dispatched(out, what(_)) == {i \in DOMAIN out : what(out[i])}

IsNote(o) == o.note
IsMute(o) == o.mute
IsDispatch(o) == o.note \/ o.mute

NoStageHist == [i \in HandIdx |-> [last |-> -1, prev |-> -1]]

\* the dispatch times of every hand index after a frame at ts
ObserveStage(out, ts) ==
    [i \in HandIdx |->
        IF i \in Dispatched(out, IsDispatch)
        THEN [last |-> ts, prev |-> stageHist[i].last]
        ELSE stageHist[i]]

\* predictWebcam: a new video frame d ms after the previous one
PredictWebcam(d, landmarks, open) ==
    LET nowInMs == wallNow + d
    IN  /\ stageFrames' = stageFrames + 1
        /\ wallNow' = nowInMs
        /\ \E res \in {processHands(handStates, role, rev, 1, landmarks, nowInMs, open)} :
              /\ handStates' = res.hs
              /\ stageOut' = res.out
              /\ triggerVisual' = (triggerVisual \/ Dispatched(res.out, IsNote) # {})
              /\ visualTimers' = setTimeouts(visualTimers, Cardinality(Dispatched(res.out, IsNote)),
                                             nowInMs + VISUAL_MS)
              /\ isMuted' = (isMuted \/ Dispatched(res.out, IsMute) # {})
              /\ muteTimers' = setTimeouts(muteTimers, Cardinality(Dispatched(res.out, IsMute)),
                                           nowInMs + MUTED_MS)
              /\ stageHist' = ObserveStage(res.out, nowInMs)
        /\ stageObs' = [i \in 0..(Len(landmarks) - 1) |->
                          [had |-> i \in DOMAIN handStates,
                           before |-> IF i \in DOMAIN handStates THEN handStates[i]
                                      ELSE NoHandState,
                           timeDiff |-> IF i \in DOMAIN handStates
                                        THEN nowInMs - handStates[i].lastFrameTime ELSE 0,
                           point |-> landmarks[i + 1]]]
        /\ UNCHANGED <<role, rev>>

\* the callback of a visual timer runs, at its due time or later
ClearTriggerVisual ==
    /\ visualTimers # <<>>
    /\ wallNow' = Max(wallNow, Head(visualTimers))
    /\ visualTimers' = Tail(visualTimers)
    /\ triggerVisual' = FALSE
    /\ UNCHANGED <<role, rev, handStates, stageFrames, stageOut, stageObs, isMuted,
                   muteTimers, stageHist>>

\* the callback of a mute timer runs, at its due time or later
ClearIsMuted ==
    /\ muteTimers # <<>>
    /\ wallNow' = Max(wallNow, Head(muteTimers))
    /\ muteTimers' = Tail(muteTimers)
    /\ isMuted' = FALSE
    /\ UNCHANGED <<role, rev, handStates, stageFrames, stageOut, stageObs, triggerVisual,
                   visualTimers, stageHist>>

InitStage ==
    /\ wallNow = StageEpoch
    /\ handStates = [i \in {} |-> NoHandState]
    /\ stageFrames = 0
    /\ stageOut = [i \in {} |-> NoDispatch]
    /\ stageObs = [i \in {} |-> [had |-> FALSE, before |-> NoHandState, timeDiff |-> 0, point |-> SA]]
    /\ triggerVisual = FALSE
    /\ isMuted = FALSE
    /\ visualTimers = <<>>
    /\ muteTimers = <<>>
    /\ stageHist = NoStageHist

-----------------------------------------------------------------------------
(* DrumGestureHandler: src/unnamed/part_004 *)

\* xPosition (0-1) is counted in 1/XDen of the screen width
XDen == 10

HIT_COOLDOWN == 80

\* VELOCITY_THRESHOLD = 2.0, in tenths
VELOCITY_THRESHOLD10 == 20

\* getDrumType with the boundaries given to the zone on their left
getDrumType_BoundaryLeft(xPosition) ==
    IF 10 * xPosition <= 2 * XDen THEN "hihat"
    ELSE IF 10 * xPosition <= 4 * XDen THEN "snare"
    ELSE IF 10 * xPosition <= 6 * XDen THEN "kick"
    ELSE IF 10 * xPosition <= 8 * XDen THEN "tom"
    ELSE "crash"

\* xPosition < 0.2 is 10 * x < 2 * XDen for x in 1/XDen
getDrumType(xPosition) ==
    IF 10 * xPosition < 2 * XDen THEN "hihat"
    ELSE IF 10 * xPosition < 4 * XDen THEN "snare"
    ELSE IF 10 * xPosition < 6 * XDen THEN "kick"
    ELSE IF 10 * xPosition < 8 * XDen THEN "tom"
    ELSE "crash"

NoHand == [handedness |-> "none", x |-> 0, y |-> 0, vy10 |-> 0]

\* the quotient fingerVelocity / 5.0 without the ceiling
HitVelocity_NoCeiling(vy10) ==
    vy10

\* Math.min(1.0, fingerVelocity / 5.0), in fiftieths
HitVelocity(vy10) ==
    IF vy10 < 50 THEN vy10 ELSE 50

\* the forEach body with the speed taken in either direction
processDrumHand_AnyDirection(st, hand, t) ==
    IF hand = NoHand THEN st
    ELSE LET handSide == IF hand.handedness = "Left" THEN "left" ELSE "right"
         IN  IF t - st.lastHitTime[handSide] < HIT_COOLDOWN THEN st
             ELSE IF Abs(hand.vy10) > VELOCITY_THRESHOLD10
             THEN [lastHitTime |-> [st.lastHitTime EXCEPT ![handSide] = t],
                   events |-> Append(st.events,
                                     [drumType |-> getDrumType(hand.x),
                                      velocity50 |-> HitVelocity(hand.vy10),
                                      timestamp |-> t,
                                      hand |-> handSide,
                                      position |-> [x |-> hand.x, y |-> hand.y]])]
             ELSE st

\* the body of the forEach for one hand: st is [lastHitTime, events]
processDrumHand(st, hand, t) ==
    IF hand = NoHand THEN st
    ELSE LET handSide == IF hand.handedness = "Left" THEN "left" ELSE "right"
         IN  IF t - st.lastHitTime[handSide] < HIT_COOLDOWN THEN st
             ELSE IF hand.vy10 > VELOCITY_THRESHOLD10
             THEN [lastHitTime |-> [st.lastHitTime EXCEPT ![handSide] = t],
                   events |-> Append(st.events,
                                     [drumType |-> getDrumType(hand.x),
                                      velocity50 |-> HitVelocity(hand.vy10),
                                      timestamp |-> t,
                                      hand |-> handSide,
                                      position |-> [x |-> hand.x, y |-> hand.y]])]
             ELSE st

\* process(data): the left hand, then the right hand
processDrums(lht, data, t) ==
    processDrumHand(processDrumHand([lastHitTime |-> lht, events |-> <<>>],
                                    data.leftHand, t),
                    data.rightHand, t)

\* index finger tips of the model: every x on the left hand, both edges of a
\* zone on the right hand
DrumLeftHands ==
    {NoHand} \cup {[handedness |-> "Left", x |-> x, y |-> 2, vy10 |-> v] :
                      x \in 0..XDen, v \in {10, 30}}
DrumRightHands ==
    {NoHand} \cup {[handedness |-> "Right", x |-> x, y |-> 8, vy10 |-> 60] : x \in {2, 9}}

\* time between two calls of process
DrumSteps == {40, 80}

\* one call of process, d ms after the previous one
ProcessDrums(d, data) ==
    LET t == perfNow + d
    IN  /\ drumCalls < MaxDrumCalls
        /\ drumCalls' = drumCalls + 1
        /\ perfNow' = t
        /\ \E res \in {processDrums(lastHitTime, data, t)} :
              /\ lastHitTime' = res.lastHitTime
              /\ drumEvents' = res.events

\* the hand sides that have an event in a list of hits
HitSides(events) == {events[n].hand : n \in DOMAIN events}

NoDrumData == [leftHand |-> NoHand, rightHand |-> NoHand]

\* what a call of process met: its input, the time since the previous call,
\* each hand's last emitted hit before (-1: none) and after the call, and
\* whether the left hand moved upward in the previous call
ObserveDrums(d, data) ==
    [data |-> data, dt |-> d,
     before |-> drumObs.after,
     after |-> [s \in {"left", "right"} |->
                  IF s \in HitSides(drumEvents') THEN perfNow' ELSE drumObs.after[s]],
     cooldownBefore |-> lastHitTime,
     prevUp |-> drumObs.data.leftHand.vy10 < 0]

\* the handler is first called HandlerEpoch ms after the page's time origin
InitDrums ==
    /\ perfNow = HandlerEpoch
    /\ lastHitTime = [left |-> 0, right |-> 0]
    /\ drumCalls = 0
    /\ drumEvents = <<>>
    /\ drumObs = [data |-> NoDrumData, dt |-> 0,
                  before |-> [left |-> -1, right |-> -1],
                  after |-> [left |-> -1, right |-> -1],
                  cooldownBefore |-> [left |-> 0, right |-> 0],
                  prevUp |-> FALSE]

-----------------------------------------------------------------------------
(* PianoGestureHandler: src/unnamed/part_004 *)

KEYS_PER_HAND == 6

\* TAP_VELOCITY_THRESHOLD = 0.8, in tenths
TAP_VELOCITY_THRESHOLD10 == 8

\* finger.tip.x is counted in 1/TipDen of the screen width
TipDen == 4


\* Math.max(0, Math.min(totalKeys - 1, Math.floor(xPosition * totalKeys)))
getKeyIndex(xPosition, hand) ==
    LET totalKeys == 12
        rawIndex == (xPosition * totalKeys) \div TipDen
    IN  Max(0, Min(totalKeys - 1, rawIndex))

\* `${handSide}-${fingerName}-${keyIndex}`: none of the three parts holds a
\* '-', so split('-') and parseInt give the parts back
KeyId(handSide, fingerName, keyIndex) ==
    [hand |-> handSide, finger |-> fingerName, keyIndex |-> keyIndex]

NoPianoHand == [handedness |-> "none"]

\* the keys a hand of the frame makes active
TappedKeys(hand) ==
    IF hand = NoPianoHand THEN {}
    ELSE LET handSide == IF hand.handedness = "Left" THEN "left" ELSE "right"
         IN  {KeyId(handSide, f, getKeyIndex(hand.fingers[f].x, handSide)) :
                 f \in {g \in DOMAIN hand.fingers :
                           /\ hand.fingers[g].extended
                           /\ hand.fingers[g].vy10 > TAP_VELOCITY_THRESHOLD10}}

\* the press events of one hand: the keys tapped now that were not active
PressEvents(active, hand, t) ==
    IF hand = NoPianoHand THEN {}
    ELSE LET handSide == IF hand.handedness = "Left" THEN "left" ELSE "right"
         IN  {[type |-> "press",
               keyId |-> KeyId(handSide, f, getKeyIndex(hand.fingers[f].x, handSide)),
               keyIndex |-> getKeyIndex(hand.fingers[f].x, handSide),
               velocity30 |-> Min(30, hand.fingers[f].vy10),
               hand |-> handSide, finger |-> f, timestamp |-> t] :
                 f \in {g \in DOMAIN hand.fingers :
                           /\ hand.fingers[g].extended
                           /\ hand.fingers[g].vy10 > TAP_VELOCITY_THRESHOLD10
                           /\ KeyId(handSide, g, getKeyIndex(hand.fingers[g].x, handSide))
                                 \notin active}}

\* process that forgets to store the frame's active keys
processPiano_KeepsActiveKeys(active, data, t) ==
    LET currentActiveKeys == TappedKeys(data.leftHand) \cup TappedKeys(data.rightHand)
    IN  [activeKeys |-> active,
         events |-> PressEvents(active, data.leftHand, t)
                    \cup PressEvents(active, data.rightHand, t)
                    \cup {[type |-> "release", keyId |-> k, keyIndex |-> k.keyIndex,
                           velocity30 |-> 0, hand |-> k.hand, finger |-> k.finger,
                           timestamp |-> t] : k \in active \ currentActiveKeys}]

\* process that releases and forgets only the keys of the hands it sees
processPiano_HoldsLostHand(active, data, t) ==
    LET currentActiveKeys == TappedKeys(data.leftHand) \cup TappedKeys(data.rightHand)
        lost == {k \in active : (IF k.hand = "left" THEN data.leftHand ELSE data.rightHand)
                                   = NoPianoHand}
    IN  [activeKeys |-> currentActiveKeys \cup lost,
         events |-> PressEvents(active, data.leftHand, t)
                    \cup PressEvents(active, data.rightHand, t)
                    \cup {[type |-> "release", keyId |-> k, keyIndex |-> k.keyIndex,
                           velocity30 |-> 0, hand |-> k.hand, finger |-> k.finger,
                           timestamp |-> t] : k \in (active \ currentActiveKeys) \ lost}]

\* process(data)
processPiano(active, data, t) ==
    LET currentActiveKeys == TappedKeys(data.leftHand) \cup TappedKeys(data.rightHand)
    IN  [activeKeys |-> currentActiveKeys,
         events |-> PressEvents(active, data.leftHand, t)
                    \cup PressEvents(active, data.rightHand, t)
                    \cup {[type |-> "release", keyId |-> k, keyIndex |-> k.keyIndex,
                           velocity30 |-> 0, hand |-> k.hand, finger |-> k.finger,
                           timestamp |-> t] : k \in active \ currentActiveKeys}]

PianoFinger(e, v, x) == [extended |-> e, vy10 |-> v, x |-> x]

\* hands of the model: on the left every combination of a bent or extended
\* index finger and an extended pinky, slow or fast, at two places; on the
\* right a tapping index finger at the right edge
PianoLeftHands ==
    {NoPianoHand} \cup
    {[handedness |-> "Left",
      fingers |-> [index |-> PianoFinger(e, v, x), pinky |-> PianoFinger(TRUE, w, x)]] :
        e \in BOOLEAN, v \in {5, 20}, w \in {5, 20}, x \in {0, 3}}
PianoRightHands ==
    {NoPianoHand} \cup
    {[handedness |-> "Right",
      fingers |-> [index |-> PianoFinger(TRUE, 40, x), pinky |-> PianoFinger(FALSE, 40, x)]] :
        x \in {TipDen}}

\* time between two calls of process
PianoSteps == {16}

\* the key identities of the model
PianoIds == {KeyId(h, f, k) : h \in {"left", "right"}, f \in Fingers, k \in 0..11}

\* one call of process, d ms after the previous one
ProcessPiano(d, data) ==
    LET t == perfNow + d
    IN  /\ pianoCalls < MaxPianoCalls
        /\ pianoCalls' = pianoCalls + 1
        /\ perfNow' = t
        /\ \E res \in {processPiano(activeKeys, data, t)} :
              /\ activeKeys' = res.activeKeys
              /\ pianoEvents' = res.events

\* an identity is active in a frame: its hand is present, its finger is
\* extended, moves downward faster than 0.8 and is over its key
PianoActive(data, k) ==
    LET hand == IF k.hand = "left" THEN data.leftHand ELSE data.rightHand
    IN  /\ hand # NoPianoHand
        /\ hand.fingers[k.finger].extended
        /\ hand.fingers[k.finger].vy10 > 8
        /\ getKeyIndex(hand.fingers[k.finger].x, k.hand) = k.keyIndex

\* what a call met: the identities active in its frame and in the previous
\* frame, and the type of each key's last event before and after the call
ObservePiano(data) ==
    [active |-> {k \in PianoIds : PianoActive(data, k)}, prev |-> pianoObs.active,
     before |-> pianoObs.after,
     after |-> [k \in PianoIds |->
                  IF \E e \in pianoEvents' : e.keyId = k
                  THEN (CHOOSE e \in pianoEvents' : e.keyId = k).type
                  ELSE pianoObs.after[k]]]

InitPiano ==
    /\ activeKeys = {}
    /\ pianoCalls = 0
    /\ pianoEvents = {}
    /\ pianoObs = [active |-> {}, prev |-> {},
                   before |-> [k \in PianoIds |-> "none"],
                   after |-> [k \in PianoIds |-> "none"]]

-----------------------------------------------------------------------------
(* GuitarGestureHandler: src/unnamed/part_004 *)

STRUM_COOLDOWN == 150

\* STRUM_THRESHOLD = 1.5, in tenths
STRUM_THRESHOLD10 == 15

\* index tip y is counted in 1/TipDen of the screen height, velocities in tenths
NoGuitarHand == [handedness |-> "none", vx10 |-> 0, vy10 |-> 0, y |-> 0]

NoRoles == [strumHand |-> "none", fretHand |-> "none"]

\* the squared speed of the index finger, in hundredths
Speed2(hand) == hand.vx10 * hand.vx10 + hand.vy10 * hand.vy10

\* a > b * 1.5 for the speeds whose squares are a2 and b2
Outpaces(a2, b2) == 4 * a2 > 9 * b2

\* identifyHands that follows the faster hand, however small the difference
identifyHands_NoMargin(roles, data) ==
    IF data.leftHand = NoGuitarHand \/ data.rightHand = NoGuitarHand THEN roles
    ELSE IF Speed2(data.leftHand) > Speed2(data.rightHand)
    THEN [strumHand |-> "left", fretHand |-> "right"]
    ELSE IF Speed2(data.rightHand) > Speed2(data.leftHand)
    THEN [strumHand |-> "right", fretHand |-> "left"]
    ELSE roles

\* identifyHands that forgets the roles when a hand is lost
identifyHands_ForgetOnLoss(roles, data) ==
    IF data.leftHand = NoGuitarHand \/ data.rightHand = NoGuitarHand THEN NoRoles
    ELSE IF Outpaces(Speed2(data.leftHand), Speed2(data.rightHand))
    THEN [strumHand |-> "left", fretHand |-> "right"]
    ELSE IF Outpaces(Speed2(data.rightHand), Speed2(data.leftHand))
    THEN [strumHand |-> "right", fretHand |-> "left"]
    ELSE roles

\* identifyHands that assigns the strum hand and leaves the fret hand as it was
identifyHands_StrumOnly(roles, data) ==
    IF data.leftHand = NoGuitarHand \/ data.rightHand = NoGuitarHand THEN roles
    ELSE IF Outpaces(Speed2(data.leftHand), Speed2(data.rightHand))
    THEN [roles EXCEPT !.strumHand = "left"]
    ELSE IF Outpaces(Speed2(data.rightHand), Speed2(data.leftHand))
    THEN [roles EXCEPT !.strumHand = "right"]
    ELSE roles

identifyHands(roles, data) ==
    IF data.leftHand = NoGuitarHand \/ data.rightHand = NoGuitarHand THEN roles
    ELSE IF Outpaces(Speed2(data.leftHand), Speed2(data.rightHand))
    THEN [strumHand |-> "left", fretHand |-> "right"]
    ELSE IF Outpaces(Speed2(data.rightHand), Speed2(data.leftHand))
    THEN [strumHand |-> "right", fretHand |-> "left"]
    ELSE roles

\* Math.floor((1 - yPosition) * 6)
getStringIndex(yPosition) == ((TipDen - yPosition) * 6) \div TipDen

\* Math.max(0, Math.min(12, Math.floor(fretHand.fingers.index.tip.y * 12)))
getFretPosition(fretHand) == Max(0, Min(12, (fretHand.y * 12) \div TipDen))

\* process(data): st is [lastStrumTime, roles]
processGuitar(st, data, t) ==
    LET roles == identifyHands(st.roles, data)
        quiet == [lastStrumTime |-> st.lastStrumTime, roles |-> roles, events |-> <<>>]
        strumHandData == IF roles.strumHand = "left" THEN data.leftHand ELSE data.rightHand
        fretHandData == IF roles.fretHand = "left" THEN data.leftHand ELSE data.rightHand
        horizontalVelocity == strumHandData.vx10
    IN  IF roles.strumHand = "none" \/ roles.fretHand = "none" THEN quiet
        ELSE IF strumHandData = NoGuitarHand \/ fretHandData = NoGuitarHand THEN quiet
        ELSE IF t - st.lastStrumTime < STRUM_COOLDOWN THEN quiet
        ELSE IF Abs(horizontalVelocity) > STRUM_THRESHOLD10
        THEN [lastStrumTime |-> t, roles |-> roles,
              events |-> <<[type |-> IF horizontalVelocity > 0 THEN "downstrum" ELSE "upstrum",
                            velocity30 |-> Min(30, Abs(horizontalVelocity)),
                            stringIndex |-> getStringIndex(strumHandData.y),
                            fretPosition |-> getFretPosition(fretHandData),
                            timestamp |-> t]>>]
        ELSE quiet

\* hands of the model: the left index tip at the top or the bottom edge, the
\* right one at mid height; speeds between 0 and 4.5, in either direction
GuitarLeftHands ==
    {NoGuitarHand} \cup {[handedness |-> "Left", vx10 |-> v, vy10 |-> 0, y |-> y] :
                            v \in {0, 20, 30}, y \in {0, TipDen}}
GuitarRightHands ==
    {NoGuitarHand} \cup {[handedness |-> "Right", vx10 |-> v, vy10 |-> 0, y |-> 2] :
                            v \in {10, 25, -45}}

\* time between two calls of process
GuitarSteps == {100, 150}

NoGuitarData == [leftHand |-> NoGuitarHand, rightHand |-> NoGuitarHand]

\* one call of process, d ms after the previous one
ProcessGuitar(d, data) ==
    LET t == perfNow + d
    IN  /\ guitarCalls < MaxGuitarCalls
        /\ guitarCalls' = guitarCalls + 1
        /\ perfNow' = t
        /\ \E res \in {processGuitar([lastStrumTime |-> lastStrumTime,
                                      roles |-> guitarRoles], data, t)} :
              /\ lastStrumTime' = res.lastStrumTime
              /\ guitarRoles' = res.roles
              /\ guitarEvents' = res.events

\* what a call met: its input and the handler's fields before it
ObserveGuitar(data) ==
    [data |-> data, roles |-> guitarRoles, lastStrumTime |-> lastStrumTime]

InitGuitar ==
    /\ lastStrumTime = 0
    /\ guitarRoles = NoRoles
    /\ guitarCalls = 0
    /\ guitarEvents = <<>>
    /\ guitarObs = [data |-> NoGuitarData, roles |-> NoRoles, lastStrumTime |-> 0]

-----------------------------------------------------------------------------
(* ThereminGestureHandler and StringsGestureHandler: src/unnamed/part_004 *)

\* a hand of the continuous instruments: the index tip in 1/TipDen, its
\* velocity in tenths
NoToneHand == [handedness |-> "none", x |-> 0, y |-> 0, vx10 |-> 0, vy10 |-> 0]

\* return null
Null == [null |-> TRUE]

\* data.rightHand || data.leftHand
RightOrLeft(data) == IF data.rightHand # NoToneHand THEN data.rightHand ELSE data.leftHand

\* the theremin that answers the loss of the hand with null
processTheremin_SilentLoss(st, data) ==
    LET hand == RightOrLeft(data)
    IN  IF hand = NoToneHand
        THEN [st |-> [st EXCEPT !.isPlaying = FALSE], out |-> Null]
        ELSE [st |-> [isPlaying |-> TRUE, lastPitch |-> TipDen - hand.y, lastVolume |-> hand.x],
              out |-> [pitch |-> TipDen - hand.y, volume |-> hand.x,
                       vibrato20 |-> Min(20, Abs(hand.vy10)),
                       isActive |-> TRUE, timestamp |-> data.timestamp]]

\* ThereminGestureHandler.process(data); pitch and volume in 1/TipDen,
\* vibrato in twentieths
processTheremin(st, data) ==
    LET hand == RightOrLeft(data)
    IN  IF hand = NoToneHand
        THEN IF st.isPlaying
             THEN [st |-> [st EXCEPT !.isPlaying = FALSE],
                   out |-> [pitch |-> st.lastPitch, volume |-> 0, vibrato20 |-> 0,
                            isActive |-> FALSE, timestamp |-> data.timestamp]]
             ELSE [st |-> st, out |-> Null]
        ELSE [st |-> [isPlaying |-> TRUE, lastPitch |-> TipDen - hand.y, lastVolume |-> hand.x],
              out |-> [pitch |-> TipDen - hand.y, volume |-> hand.x,
                       vibrato20 |-> Min(20, Abs(hand.vy10)),
                       isActive |-> TRUE, timestamp |-> data.timestamp]]

\* SWELL_THRESHOLD = 0.8, in tenths
SWELL_THRESHOLD10 == 8

\* StringsGestureHandler.process(data); spread and yPosition in 1/TipDen,
\* intensity as the square of thirtieths
processStrings(st, data) ==
    LET leftHand == data.leftHand
        rightHand == data.rightHand
        spread == IF leftHand # NoToneHand /\ rightHand # NoToneHand
                  THEN Abs(rightHand.x - leftHand.x)
                  ELSE TipDen \div 2
        primaryHand == RightOrLeft(data)
        velocityMag2 == primaryHand.vx10 * primaryHand.vx10 + primaryHand.vy10 * primaryHand.vy10
        intensity == Min(900, velocityMag2)
        type == IF Abs(primaryHand.vy10) > SWELL_THRESHOLD10
                THEN (IF primaryHand.vy10 < 0 THEN "swell" ELSE "accent")
                ELSE "sustain"
    IN  IF primaryHand = NoToneHand
        THEN IF st.isPlaying
             THEN [st |-> [st EXCEPT !.isPlaying = FALSE],
                   out |-> [type |-> "release", intensity |-> 0, spread |-> spread,
                            yPosition |-> TipDen \div 2, timestamp |-> data.timestamp]]
             ELSE [st |-> st, out |-> Null]
        ELSE [st |-> [isPlaying |-> (st.isPlaying \/ intensity > 9),
                      lastIntensity |-> intensity],
              out |-> [type |-> type, intensity |-> intensity, spread |-> spread,
                       yPosition |-> TipDen - primaryHand.y, timestamp |-> data.timestamp]]

\* hands of the model: a slow left hand; a right hand that is still, or fast
\* upward
ToneLeftHands ==
    {NoToneHand, [handedness |-> "Left", x |-> 1, y |-> 1, vx10 |-> 0, vy10 |-> 5]}
ToneRightHands ==
    {NoToneHand,
     [handedness |-> "Right", x |-> 0, y |-> 2, vx10 |-> 0, vy10 |-> 0],
     [handedness |-> "Right", x |-> 3, y |-> TipDen, vx10 |-> 10, vy10 |-> -30]}

\* time between two frames
ToneSteps == {16, 33, 50}

ToneData(l, r, t) == [leftHand |-> l, rightHand |-> r, timestamp |-> t]

\* one call of ThereminGestureHandler.process, on the frame d ms after the last
ProcessTheremin(d, l, r) ==
    /\ thereminCalls < MaxThereminCalls
    /\ thereminCalls' = thereminCalls + 1
    /\ now' = now + d
    /\ \E res \in {processTheremin(theremin, ToneData(l, r, now + d))} :
          /\ theremin' = res.st
          /\ thereminOut' = res.out

\* one call of StringsGestureHandler.process, on the frame d ms after the last
ProcessStrings(d, l, r) ==
    /\ stringsCalls < MaxStringsCalls
    /\ stringsCalls' = stringsCalls + 1
    /\ now' = now + d
    /\ \E res \in {processStrings(strings, ToneData(l, r, now + d))} :
          /\ strings' = res.st
          /\ stringsOut' = res.out

\* whether the frame and the frame before it had a hand
ObserveTone(obs, l, r) ==
    [present |-> (l # NoToneHand \/ r # NoToneHand), prev |-> obs.present]

InitTone ==
    /\ theremin = [isPlaying |-> FALSE, lastPitch |-> TipDen \div 2, lastVolume |-> TipDen \div 2]
    /\ thereminCalls = 0
    /\ thereminOut = Null
    /\ thereminObs = [present |-> FALSE, prev |-> FALSE]
    /\ strings = [isPlaying |-> FALSE, lastIntensity |-> 0]
    /\ stringsCalls = 0
    /\ stringsOut = Null
    /\ stringsObs = [present |-> FALSE, prev |-> FALSE]

-----------------------------------------------------------------------------
(* PadsGestureHandler: src/unnamed/part_004 *)

\* a hand of the pads: the number of extended fingers, the index tip in 1/TipDen
NoPadHand == [handedness |-> "none", extended |-> 0, x |-> 0, y |-> 0]

RECURSIVE Pow10(_)
Pow10(k) == IF k = 0 THEN 1 ELSE 10 * Pow10(k - 1)

\* last + (target - last) * SMOOTHING with SMOOTHING = 0.3: a coordinate is
\* num / (TipDen * 10^k), the target is in 1/TipDen
Smooth(num, k, target) == 7 * num + 3 * target * Pow10(k)

\* the pads that take one extended finger for playing
processPads_OneFinger(st, data) ==
    LET hand == IF data.leftHand # NoPadHand THEN data.leftHand ELSE data.rightHand
        extendedFingers == hand.extended
        position == [x |-> Smooth(st.lastPosition.x, st.lastPosition.k, hand.x),
                     y |-> Smooth(st.lastPosition.y, st.lastPosition.k, hand.y),
                     k |-> st.lastPosition.k + 1]
        wasPlaying == st.isPlaying
        isPlaying == extendedFingers >= 1
    IN  IF hand = NoPadHand
        THEN IF st.isPlaying
             THEN [st |-> [st EXCEPT !.isPlaying = FALSE],
                   out |-> [type |-> "release", intensity5 |-> 0,
                            position |-> st.lastPosition, fingers |-> 0,
                            timestamp |-> data.timestamp]]
             ELSE [st |-> st, out |-> Null]
        ELSE [st |-> [isPlaying |-> isPlaying, lastPosition |-> position],
              out |-> [type |-> IF ~wasPlaying /\ isPlaying THEN "start"
                                ELSE IF ~isPlaying /\ wasPlaying THEN "release"
                                ELSE "sustain",
                       intensity5 |-> Min(5, extendedFingers),
                       position |-> position, fingers |-> extendedFingers,
                       timestamp |-> data.timestamp]]

\* PadsGestureHandler.process(data); intensity in fifths
processPads(st, data) ==
    LET hand == IF data.leftHand # NoPadHand THEN data.leftHand ELSE data.rightHand
        extendedFingers == hand.extended
        position == [x |-> Smooth(st.lastPosition.x, st.lastPosition.k, hand.x),
                     y |-> Smooth(st.lastPosition.y, st.lastPosition.k, hand.y),
                     k |-> st.lastPosition.k + 1]
        wasPlaying == st.isPlaying
        isPlaying == extendedFingers >= 2
    IN  IF hand = NoPadHand
        THEN IF st.isPlaying
             THEN [st |-> [st EXCEPT !.isPlaying = FALSE],
                   out |-> [type |-> "release", intensity5 |-> 0,
                            position |-> st.lastPosition, fingers |-> 0,
                            timestamp |-> data.timestamp]]
             ELSE [st |-> st, out |-> Null]
        ELSE [st |-> [isPlaying |-> isPlaying, lastPosition |-> position],
              out |-> [type |-> IF ~wasPlaying /\ isPlaying THEN "start"
                                ELSE IF ~isPlaying /\ wasPlaying THEN "release"
                                ELSE "sustain",
                       intensity5 |-> Min(5, extendedFingers),
                       position |-> position, fingers |-> extendedFingers,
                       timestamp |-> data.timestamp]]

\* hands of the model: a left hand with 0, 1, 2 or 5 extended fingers, a right
\* hand with 3
PadLeftHands ==
    {NoPadHand} \cup {[handedness |-> "Left", extended |-> n, x |-> 1, y |-> 3] :
                         n \in {0, 1, 2, 5}}
PadRightHands ==
    {NoPadHand, [handedness |-> "Right", extended |-> 3, x |-> TipDen, y |-> 0]}

\* time between two frames
PadSteps == {16, 33}

\* one call of process, on the frame d ms after the last
ProcessPads(d, l, r) ==
    /\ padsCalls < MaxPadsCalls
    /\ padsCalls' = padsCalls + 1
    /\ now' = now + d
    /\ \E res \in {processPads(pads, ToneData(l, r, now + d))} :
          /\ pads' = res.st
          /\ padsOut' = res.out

\* what a call met: whether a hand was present, whether the chosen hand had
\* two or more extended fingers in the frame and in the frame before, and the
\* last 'start' or 'release' returned before and after the call
ObservePads(l, r) ==
    [present |-> (l # NoPadHand \/ r # NoPadHand),
     active |-> (IF l # NoPadHand THEN l.extended >= 2 ELSE r # NoPadHand /\ r.extended >= 2),
     prev |-> padsObs.active,
     before |-> padsObs.after,
     after |-> IF padsOut' # Null /\ padsOut'.type \in {"start", "release"}
               THEN padsOut'.type ELSE padsObs.after]

InitPads ==
    /\ pads = [isPlaying |-> FALSE,
               lastPosition |-> [x |-> TipDen \div 2, y |-> TipDen \div 2, k |-> 0]]
    /\ padsCalls = 0
    /\ padsOut = Null
    /\ padsObs = [present |-> FALSE, active |-> FALSE, prev |-> FALSE,
                  before |-> "none", after |-> "none"]

Init ==
    /\ InitTrigger /\ InitKinematics /\ InitStage /\ InitDrums /\ InitPiano /\ InitGuitar
    /\ InitTone /\ InitPads
    /\ role = "DRUMS" /\ rev = "current"

-----------------------------------------------------------------------------
(* Cooldown: canTrigger called at arbitrary times, with arbitrary classes *)

CooldownSteps == {10, 50}
CooldownClasses == {"piano", "theremin"}

NextCooldown ==
    \/ \E d \in CooldownSteps :
          Tick(d) /\ UNCHANGED <<trigVars, trigHist, kinVars, stageVars, drumVars, gestVars>>
    \/ \E id \in Ids, c \in CooldownClasses :
          /\ CanTrigger(id, c)
          /\ accepted' = IF lastCall'.ret
                         THEN [accepted EXCEPT ![id] =
                                  [t |-> now, cls |-> c, n |-> IF @.n < 2 THEN @.n + 1 ELSE 2]]
                         ELSE accepted
          /\ UNCHANGED <<now, passed, bufHist, trigObs, kinVars, stageVars, drumVars, gestVars>>

SpecCooldown == Init /\ [][NextCooldown]_vars

\* C1 -- Cooldown monotonicity.  Whenever canTrigger(id, c) returns true and an
\* earlier canTrigger call for the same id returned true, the time between the
\* two is at least COOLDOWN_MS[c].  The earlier call is the most recent accepted
\* one of any class, which is no earlier than the most recent accepted one of
\* class c, so this gives the bound for two accepted calls of one class c.
C1_CooldownMonotonic ==
    [][ ( /\ now' = now
          /\ lastCall'.op = "canTrigger"
          /\ lastCall'.ret
          /\ lastCall'.cls \in DOMAIN COOLDOWN_MS
          /\ accepted[lastCall'.id].n > 0 )
        => now - accepted[lastCall'.id].t >= COOLDOWN_MS[lastCall'.cls] ]_vars

\* an id accepted a second time, for the class piano, exactly one cooldown after
\* it was first accepted
C1_Witness ==
    /\ lastCall.op = "canTrigger" /\ lastCall.id = "a" /\ lastCall.ret
    /\ accepted["a"] = [t |-> 100, cls |-> "piano", n |-> 2]
    /\ now = 100

-----------------------------------------------------------------------------
(* Retrigger-on-change, interleaved with the cooldown primitive *)

RetriggerSteps == {100}
RetriggerClasses == {"piano", "default"}

NextRetrigger ==
    \/ \E d \in RetriggerSteps :
          Tick(d) /\ UNCHANGED <<trigVars, trigHist, kinVars, stageVars, drumVars, gestVars>>
    \/ \E id \in Ids, k \in KeyIdx :
          /\ ShouldRetrigger(id, k)
          /\ passed' = [passed EXCEPT ![id] = k]
          /\ UNCHANGED <<now, accepted, bufHist, trigObs, kinVars, stageVars, drumVars, gestVars>>
    \/ \E id \in Ids, c \in RetriggerClasses :
          /\ CanTrigger(id, c)
          /\ UNCHANGED <<now, trigHist, kinVars, stageVars, drumVars, gestVars>>

SpecRetrigger == Init /\ [][NextRetrigger]_vars

\* C2 -- Retrigger-on-change.  A shouldRetrigger(id, k) call returns true exactly
\* when k differs from the index passed in the previous shouldRetrigger call for
\* id, or there was no such call, and after the call k is the recorded index.
C2_RetriggerOnChange ==
    [][ (now' = now /\ lastCall'.op = "shouldRetrigger")
        => /\ lastCall'.ret <=> (passed[lastCall'.id] # lastCall'.key)
           /\ triggerStates'[lastCall'.id].lastKeyIndex = lastCall'.key ]_vars

\* the same index passed again: the call after a change reports nothing
C2_Witness ==
    /\ lastCall.op = "shouldRetrigger" /\ lastCall.id = "a"
    /\ lastCall.key = 1 /\ ~lastCall.ret
    /\ passed["a"] = 1
    /\ "b" \in DOMAIN triggerStates /\ triggerStates["b"].lastKeyIndex = 0

-----------------------------------------------------------------------------
(* Frame-buffer debounce on one identifier *)

DebounceSteps == {50}
DebounceClasses == {"piano", "pads"}
DebounceIds == {"a"}

\* the cooldown of class c has elapsed for id at the time of a call
CooldownElapsed(id, c) ==
    now - getState(triggerStates, id)[id].lastTriggerTime >= CooldownOf(c)

NextDebounce ==
    \/ \E d \in DebounceSteps :
          Tick(d) /\ UNCHANGED <<trigVars, trigHist, kinVars, stageVars, drumVars, gestVars>>
    \/ \E id \in DebounceIds, touch \in BOOLEAN, c \in DebounceClasses :
          /\ Len(bufHist[id]) < MaxHist
          /\ ShouldTriggerWithBuffer(id, touch, c)
          /\ bufHist' = [bufHist EXCEPT ![id] =
                           Append(@, [op |-> "shouldTriggerWithBuffer",
                                      touch |-> touch,
                                      ret |-> lastCall'.ret,
                                      cd |-> CooldownElapsed(id, c)])]
          /\ UNCHANGED <<now, accepted, passed, trigObs, kinVars, stageVars, drumVars, gestVars>>
    \/ \E id \in DebounceIds, touch \in BOOLEAN :
          /\ Len(bufHist[id]) < MaxHist
          /\ UpdateBuffer(id, touch)
          /\ bufHist' = [bufHist EXCEPT ![id] =
                           Append(@, [op |-> "updateBuffer",
                                      touch |-> touch,
                                      ret |-> FALSE,
                                      cd |-> CooldownElapsed(id, "default")])]
          /\ UNCHANGED <<now, accepted, passed, trigObs, kinVars, stageVars, drumVars, gestVars>>
    \/ \E id \in DebounceIds :
          /\ ClearTriggerState(id)
          /\ bufHist' = [bufHist EXCEPT ![id] = <<>>]
          /\ UNCHANGED <<now, accepted, passed, trigObs, kinVars, stageVars, drumVars, gestVars>>

SpecDebounce == Init /\ [][NextDebounce]_vars

\* the per-frame contact sequence true, true, true, false, true fed to
\* shouldTriggerWithBuffer on a fresh id, the cooldown elapsed at every call
ScenarioTouches == <<TRUE, TRUE, TRUE, FALSE, TRUE>>

InScenario(id) ==
    /\ Len(bufHist[id]) = Len(ScenarioTouches)
    /\ \A i \in 1..Len(ScenarioTouches) :
          /\ bufHist[id][i].op = "shouldTriggerWithBuffer"
          /\ bufHist[id][i].touch = ScenarioTouches[i]
          /\ bufHist[id][i].cd

Results(id) == [i \in 1..Len(bufHist[id]) |-> bufHist[id][i].ret]

\* C3 as stated -- the scenario yields exactly one true result, on the last call.
C3_Original ==
    \A id \in DebounceIds :
        InScenario(id) => Results(id) = <<FALSE, FALSE, FALSE, FALSE, TRUE>>

\* C3 as amended -- the scenario yields exactly one true result, and it is on
\* the first call (the first frame of the first run of contact); the last call
\* returns false, the buffer still holding contact frames of the first run.
C3_Amended ==
    \A id \in DebounceIds :
        InScenario(id) => Results(id) = <<TRUE, FALSE, FALSE, FALSE, FALSE>>

C3_Witness == InScenario("a")

\* C4 -- Frame-buffer debounce.  A shouldTriggerWithBuffer call returns true only
\* if it was passed contact and none of the (up to) three contact states recorded
\* for the id before it, by either buffer operation, was contact; and the buffer
\* of every identifier holds exactly BUFFER_SIZE entries.
C4_BufferDebounce ==
    /\ \A id \in DOMAIN triggerStates : Len(triggerStates[id].buffer) = BUFFER_SIZE
    /\ \A id \in DebounceIds : \A i \in 1..Len(bufHist[id]) :
          bufHist[id][i].ret =>
             /\ bufHist[id][i].touch
             /\ \A j \in 1..(i - 1) :
                   j >= i - BUFFER_SIZE => ~bufHist[id][j].touch

\* a trigger fired on the first contact frame after three frames without contact
\* that followed a run of contact
C4_Witness ==
    /\ Len(bufHist["a"]) = 5
    /\ bufHist["a"][1].touch
    /\ ~bufHist["a"][2].touch /\ ~bufHist["a"][3].touch /\ ~bufHist["a"][4].touch
    /\ bufHist["a"][5].touch /\ bufHist["a"][5].ret

-----------------------------------------------------------------------------
(* The detector fed with frames *)

NextKinematics ==
    \E d \in FrameSteps, detected \in DetectedHands, eps \in ClockJitter :
        /\ OnResults(d, detected, eps)
        /\ kinObs' = [s \in DOMAIN detected |-> Observe(s, now + d, now + d + eps)]
        /\ UNCHANGED <<trigVars, trigHist, stageVars, drumVars, gestVars>>

SpecKinematics == Init /\ [][NextKinematics]_vars

Seen == DOMAIN gestureData.hands

\* C5 -- Tracking-loss reset for fingers.  For every finger of every hand of a
\* frame: if the finger had no cached sample, or its cached sample is more than
\* 500 ms old, the reported velocity is (0,0,0), however far the tip moved; and
\* in both cases the cache then holds the current tip and time.
C5_FingerTrackingLoss ==
    \A s \in Seen : \A f \in Fingers :
        (kinObs[s].finger[f].first \/ kinObs[s].finger[f].gap > 500)
        => /\ gestureData.hands[s].fingers[f].velocity = Zero
           /\ previousFingerTips[s][f] =
                 [tip |-> gestureData.hands[s].fingers[f].tip, timestamp |-> now]

\* a finger seen again more than 500 ms after its cached sample, the tip
\* elsewhere, reported with zero velocity
C5_Witness ==
    \E s \in Seen : \E f \in Fingers :
        /\ ~kinObs[s].finger[f].first
        /\ kinObs[s].finger[f].gap > 500
        /\ kinObs[s].finger[f].from # gestureData.hands[s].fingers[f].tip
        /\ gestureData.hands[s].fingers[f].velocity = Zero

\* C6 -- Tracking-loss reset for the hand level.  The wrist velocity of a hand
\* of a frame is zero if the hand had no cached sample or its cached sample is
\* more than 500 ms old.
C6_HandTrackingLoss ==
    \A s \in Seen :
        (kinObs[s].hand.first \/ kinObs[s].hand.gap > 500)
        => gestureData.hands[s].velocity = Zero

\* C9 -- Kinematics noise floor.  A sample that arrives less than 10 ms after
\* the cached one is ignored: the cached position and timestamp stay as they
\* were and no velocity is computed from the sample, for fingers and for hands.
C9_KinematicsNoiseFloor ==
    \A s \in Seen :
        /\ \A f \in Fingers :
              LET o == kinObs[s].finger[f]
                  tip == gestureData.hands[s].fingers[f].tip
              IN  (~o.first /\ o.gap < 10)
                  => /\ previousFingerTips[s][f] = [tip |-> o.from, timestamp |-> now - o.gap]
                     /\ tip # o.from =>
                           gestureData.hands[s].fingers[f].velocity # Velocity(tip, o.from, o.gap)
        /\ LET o == kinObs[s].hand
           IN  (~o.first /\ o.gap < 10)
               => /\ previousHand[s].wrist = o.from
                  /\ previousHand[s].timestamp = gestureData.timestamp - o.gap

\* two vectors over their own denominators are the same vector
SameVec(a, b) ==
    /\ a.x * b.den = b.x * a.den
    /\ a.y * b.den = b.y * a.den
    /\ a.z * b.den = b.z * a.den

\* C25 -- Hand-level acceleration.  For a hand that had a cached sample, the
\* acceleration of the frame is (the frame's hand velocity - the velocity cached
\* at the previous frame) / the time since the cached sample.
C25_HandAcceleration ==
    \A s \in Seen :
        (~kinObs[s].hand.first /\ kinObs[s].hand.gap > 0)
        => SameVec(gestureData.hands[s].acceleration,
                   Acceleration(gestureData.hands[s].velocity, kinObs[s].vel,
                                kinObs[s].hand.gap))

-----------------------------------------------------------------------------
(* The Stage fed with frames, for every role and both revisions *)

InitAnyStage ==
    /\ InitTrigger /\ InitKinematics /\ InitStage /\ InitDrums /\ InitPiano /\ InitGuitar
    /\ InitTone /\ InitPads
    /\ role \in StageRoles /\ rev \in Revisions

NextStage ==
    \E d \in StageSteps, landmarks \in StageLandmarks, open \in BOOLEAN :
        /\ stageFrames < MaxStageFrames
        /\ PredictWebcam(d, landmarks, open)
        /\ UNCHANGED <<now, trigVars, trigHist, kinVars, drumVars, gestVars>>

SpecStage == InitAnyStage /\ [][NextStage]_vars

\* C7 -- Stage tracking-loss recovery.  A sample that arrives more than the
\* staleness bound (500 ms; 250 ms in the earlier revision) after the hand's
\* previous sample dispatches nothing and changes the hand's state only in x, y
\* and lastFrameTime, which become the sample's (so lastTrigger is unchanged).
C7_StageTrackingLoss ==
    \A i \in DOMAIN stageObs :
        (stageObs[i].had /\ stageObs[i].timeDiff > (IF rev = "current" THEN 500 ELSE 250))
        => /\ stageOut[i] = NoDispatch
           /\ handStates[i] = [stageObs[i].before EXCEPT
                                  !.x = stageObs[i].point.x,
                                  !.y = stageObs[i].point.y,
                                  !.lastFrameTime = wallNow]

\* a hand that triggered before, seen again after the bound, at another height
C7_Witness ==
    \E i \in DOMAIN stageObs :
        /\ stageObs[i].had
        /\ stageObs[i].timeDiff > 500
        /\ stageObs[i].before.lastTrigger > 0
        /\ stageObs[i].point.y # stageObs[i].before.y

\* C8 -- Stage noise floor.  A sample that arrives less than 10 ms after the
\* hand's previous accepted sample leaves the hand's state (x, y, lastFrameTime,
\* lastTrigger, lastNoteTime) as it was and dispatches nothing.
C8_StageNoiseFloor ==
    \A i \in DOMAIN stageObs :
        (stageObs[i].had /\ stageObs[i].timeDiff < 10)
        => /\ stageOut[i] = NoDispatch
           /\ handStates[i] = stageObs[i].before

\* a sample 5 ms after the accepted one, at another height
C8_Witness ==
    \E i \in DOMAIN stageObs :
        /\ stageObs[i].had
        /\ stageObs[i].timeDiff < 10
        /\ stageObs[i].point.y # stageObs[i].before.y
        /\ handStates[i].lastFrameTime = wallNow - stageObs[i].timeDiff

\* the time of the frame that stageObs[i] describes
FrameTime(i) == stageObs[i].before.lastFrameTime + stageObs[i].timeDiff

\* processHand on the state and sample that hand index i met in the last frame,
\* with the socket open or not
Replayed(i, open) ==
    processHand(MapSet([j \in {} |-> NoHandState], i, stageObs[i].before),
                role, rev, i, stageObs[i].point, FrameTime(i), open)

\* C23 -- Dispatch failure isolation.  Whether the socket is open when a hand
\* dispatches changes nothing but the network message: the hand's state after
\* the frame (lastTrigger included) and the synthesis call (note or mute) are
\* what processHand gives on the same state and sample with the socket open and
\* with it closed, so later samples meet the same state; and a message is sent
\* only in the frame of its own dispatch (nothing is sent again later).
C23_DispatchIsolation ==
    \A i \in DOMAIN stageObs :
        /\ stageObs[i].had
           => \A open \in BOOLEAN :
                 \A r \in {Replayed(i, open)} :
                    /\ handStates[i] = r.hs[i]
                    /\ stageOut[i].note = r.out.note
                    /\ stageOut[i].mute = r.out.mute
        /\ stageOut[i].net => (stageOut[i].note \/ stageOut[i].mute)

\* a note played while the socket is not open, recorded as the last trigger
C23_Witness ==
    \E i \in DOMAIN stageObs :
        /\ stageObs[i].had
        /\ stageOut[i].note /\ ~stageOut[i].net
        /\ handStates[i].lastTrigger = FrameTime(i)

-----------------------------------------------------------------------------
(* The drum handler fed with gesture data *)

NextDrums ==
    \E d \in DrumSteps, l \in DrumLeftHands, r \in DrumRightHands :
        /\ ProcessDrums(d, [leftHand |-> l, rightHand |-> r])
        /\ UNCHANGED <<now, trigVars, trigHist, kinVars, stageVars, gestVars>>

SpecDrums == Init /\ [][NextDrums]_vars

\* C10 -- Drum zone partition.  Every hit at a horizontal position x in [0,1]
\* gets exactly one of hihat, snare, kick, tom, crash: hihat on [0,0.2), snare
\* on [0.2,0.4), kick on [0.4,0.6), tom on [0.6,0.8), crash on [0.8,1]; the
\* type is fixed by x alone, whatever the hand, the height, the speed or the
\* time of the hit.
C10_DrumZonePartition ==
    \A n \in DOMAIN drumEvents :
        LET e == drumEvents[n]
            x10 == 10 * e.position.x
        IN  /\ e.position.x \in 0..XDen
            /\ e.drumType \in {"hihat", "snare", "kick", "tom", "crash"}
            /\ e.drumType = "hihat" <=> x10 < 2 * XDen
            /\ e.drumType = "snare" <=> (2 * XDen <= x10 /\ x10 < 4 * XDen)
            /\ e.drumType = "kick"  <=> (4 * XDen <= x10 /\ x10 < 6 * XDen)
            /\ e.drumType = "tom"   <=> (6 * XDen <= x10 /\ x10 < 8 * XDen)
            /\ e.drumType = "crash" <=> 8 * XDen <= x10

\* both hands hit in one call at the boundary 0.2, at different heights and
\* speeds, in a call after the first
C10_Witness ==
    /\ Len(drumEvents) = 2
    /\ \A n \in 1..2 : 10 * drumEvents[n].position.x = 2 * XDen /\ drumEvents[n].drumType = "snare"
    /\ drumEvents[1].velocity50 # drumEvents[2].velocity50
    /\ drumEvents[1].position.y # drumEvents[2].position.y
    /\ drumCalls > 1

-----------------------------------------------------------------------------
(* The drum handler fed with strokes in both directions *)

StrikeLeftHands ==
    {NoHand} \cup {[handedness |-> "Left", x |-> 1, y |-> 2, vy10 |-> v] : v \in {-60, 10, 30}}
StrikeRightHands ==
    {NoHand} \cup {[handedness |-> "Right", x |-> 9, y |-> 8, vy10 |-> v] : v \in {-60, 60}}
StrikeSteps == {30, 80}

NextStrike ==
    \E d \in StrikeSteps, l \in StrikeLeftHands, r \in StrikeRightHands :
        /\ ProcessDrums(d, [leftHand |-> l, rightHand |-> r])
        /\ drumObs' = ObserveDrums(d, [leftHand |-> l, rightHand |-> r])
        /\ UNCHANGED <<now, trigVars, trigHist, kinVars, stageVars, pianoVars, guitarVars, thereminVars, stringsVars, padsVars>>

SpecStrike == Init /\ [][NextStrike]_vars

HandOf(data, s) == IF s = "left" THEN data.leftHand ELSE data.rightHand

\* C11 -- Drum strike policy.  A call emits a hit for a hand exactly when the
\* hand is present, its index finger moves downward faster than 2.0 and 80 ms
\* or more have passed since that hand's last hit; an upward motion emits
\* nothing and starts no cooldown; an upward stroke followed 30 ms later by a
\* downward stroke above the threshold at x = 0.1 gives exactly one hi-hat hit.
C11_DrumStrikePolicy ==
    drumCalls > 0 =>
        /\ \A s \in {"left", "right"} :
              LET hand == HandOf(drumObs.data, s)
              IN  /\ s \in HitSides(drumEvents)
                     <=> /\ hand # NoHand
                         /\ hand.vy10 > 20
                         /\ drumObs.before[s] = -1 \/ perfNow - drumObs.before[s] >= 80
                  /\ (hand # NoHand /\ hand.vy10 < 0)
                     => /\ s \notin HitSides(drumEvents)
                        /\ lastHitTime[s] = drumObs.cooldownBefore[s]
                  /\ Cardinality({n \in DOMAIN drumEvents : drumEvents[n].hand = s}) <= 1
        /\ ( /\ drumObs.prevUp /\ drumObs.dt = 30
             /\ drumObs.data.leftHand # NoHand
             /\ drumObs.data.leftHand.vy10 > 20
             /\ 10 * drumObs.data.leftHand.x = XDen
             /\ drumObs.data.rightHand = NoHand
             /\ drumObs.before.left = -1 )
           => /\ Len(drumEvents) = 1
              /\ drumEvents[1].drumType = "hihat"
              /\ drumEvents[1].hand = "left"

\* the upward stroke and, 30 ms later, the downward stroke at x = 0.1
C11_Witness ==
    /\ drumCalls = 2
    /\ drumObs.prevUp /\ drumObs.dt = 30
    /\ drumObs.data.leftHand # NoHand /\ drumObs.data.leftHand.vy10 > 20
    /\ drumObs.data.rightHand = NoHand
    /\ Len(drumEvents) = 1 /\ drumEvents[1].drumType = "hihat"

-----------------------------------------------------------------------------
(* The piano handler fed with gesture data *)

NextPiano ==
    \E d \in PianoSteps, l \in PianoLeftHands, r \in PianoRightHands :
        /\ ProcessPiano(d, [leftHand |-> l, rightHand |-> r])
        /\ pianoObs' = ObservePiano([leftHand |-> l, rightHand |-> r])
        /\ UNCHANGED <<now, trigVars, trigHist, kinVars, stageVars,
                       lastHitTime, drumCalls, drumEvents, drumObs, guitarVars,
                       thereminVars, stringsVars, padsVars>>

SpecPiano == Init /\ [][NextPiano]_vars

EventsOf(k, type) == {e \in pianoEvents : e.keyId = k /\ e.type = type}

\* C12 -- Piano press/release alternation.  An identity (hand, finger,
\* keyIndex) is active in a frame when its hand is present and its finger is
\* extended, moves downward faster than 0.8 and is over the key; pianoObs
\* holds the identities active in the last frame and in the one before.
\* For every key identity a press is
\* emitted exactly in a frame where it is active and was not active in the
\* previous frame, a release exactly in a frame where it was active in the
\* previous frame and is not now; so its events alternate press, release,
\* press, ..., starting with a press.
C12_PianoAlternation ==
    \A k \in PianoIds :
        /\ EventsOf(k, "press") # {}
           <=> (k \in pianoObs.active /\ k \notin pianoObs.prev)
        /\ EventsOf(k, "release") # {}
           <=> (k \in pianoObs.prev /\ k \notin pianoObs.active)
        /\ Cardinality({e \in pianoEvents : e.keyId = k}) <= 1
        /\ EventsOf(k, "press") # {} => pianoObs.before[k] \in {"none", "release"}
        /\ EventsOf(k, "release") # {} => pianoObs.before[k] = "press"

\* a key pressed again after its release, while another key is released
C12_Witness ==
    /\ \E k \in PianoIds : EventsOf(k, "press") # {} /\ pianoObs.before[k] = "release"
    /\ \E k \in PianoIds : EventsOf(k, "release") # {}

\* C13 -- Piano hand ranges.  Every event has keyIndex in 0..11; the left
\* hand's events have keyIndex in 0..5 and the right hand's in 6..11.
C13_PianoHandRanges ==
    \A e \in pianoEvents :
        /\ e.keyIndex \in 0..11
        /\ e.hand = "left" => e.keyIndex \in 0..5
        /\ e.hand = "right" => e.keyIndex \in 6..11

\* the keys whose last event so far is a press
Held(last) == {k \in PianoIds : last[k] = "press"}

\* C30 -- Piano held-key invariant.  After every process call activeKeys is
\* exactly the set of key identities whose last emitted event is a press; and a
\* call in whose frame a hand is absent or has no tapping finger emits a
\* release for every key that hand held and leaves none of them in activeKeys.
C30_PianoHeldKeys ==
    /\ activeKeys = Held(pianoObs.after)
    /\ \A h \in {"left", "right"} :
          (\A k \in pianoObs.active : k.hand # h)
          => \A k \in Held(pianoObs.before) :
                k.hand = h => (EventsOf(k, "release") # {} /\ k \notin activeKeys)

\* the left hand held a key and has none active in this frame: the key is
\* released while the right hand keeps holding its own
C30_Witness ==
    /\ \E k \in Held(pianoObs.before) : k.hand = "left" /\ EventsOf(k, "release") # {}
    /\ \A k \in pianoObs.active : k.hand = "right"
    /\ \E k \in activeKeys : k \in Held(pianoObs.before)

-----------------------------------------------------------------------------
(* The guitar handler fed with gesture data *)

NextGuitar ==
    \E d \in GuitarSteps, l \in GuitarLeftHands, r \in GuitarRightHands :
        /\ ProcessGuitar(d, [leftHand |-> l, rightHand |-> r])
        /\ guitarObs' = ObserveGuitar([leftHand |-> l, rightHand |-> r])
        /\ UNCHANGED <<now, trigVars, trigHist, kinVars, stageVars,
                       lastHitTime, drumCalls, drumEvents, drumObs, pianoVars,
                       thereminVars, stringsVars, padsVars>>

SpecGuitar == Init /\ [][NextGuitar]_vars

HandMissing(data) == data.leftHand = NoGuitarHand \/ data.rightHand = NoGuitarHand

\* C14 -- Guitar role stability.  Once the roles are assigned, a frame where a
\* hand is missing or where neither index-finger speed reaches 1.5 times the
\* other leaves them unchanged; they change only in a frame where one hand's
\* speed is at least 1.5 times the other's, and then the faster hand is the
\* strum hand.
C14_GuitarRoleStability ==
    (guitarCalls > 0 /\ guitarObs.roles # NoRoles) =>
        LET l2 == Speed2(guitarObs.data.leftHand)
            r2 == Speed2(guitarObs.data.rightHand)
        IN  /\ (HandMissing(guitarObs.data) \/ (4 * l2 < 9 * r2 /\ 4 * r2 < 9 * l2))
               => guitarRoles = guitarObs.roles
            /\ guitarRoles # guitarObs.roles
               => /\ ~HandMissing(guitarObs.data)
                  /\ \/ 4 * l2 >= 9 * r2 /\ guitarRoles = [strumHand |-> "left", fretHand |-> "right"]
                     \/ 4 * r2 >= 9 * l2 /\ guitarRoles = [strumHand |-> "right", fretHand |-> "left"]

\* the right hand is the strum hand, and a frame where the left hand is the
\* faster one by less than the margin (3.0 against 2.5) keeps the roles
C14_Witness ==
    /\ guitarObs.roles = [strumHand |-> "right", fretHand |-> "left"]
    /\ guitarObs.data.leftHand # NoGuitarHand /\ guitarObs.data.leftHand.vx10 = 30
    /\ guitarObs.data.rightHand # NoGuitarHand /\ guitarObs.data.rightHand.vx10 = 25
    /\ guitarRoles = guitarObs.roles

\* C15 -- Guitar needs both hands.  A frame where the left or the right hand
\* is absent returns no event and leaves the roles and the strum cooldown as
\* they were, also after the roles were assigned.
C15_GuitarNeedsBothHands ==
    (guitarCalls > 0 /\ HandMissing(guitarObs.data)) =>
        /\ guitarEvents = <<>>
        /\ guitarRoles = guitarObs.roles
        /\ lastStrumTime = guitarObs.lastStrumTime

\* the roles are assigned, a strum was made, the cooldown has elapsed, and the
\* strum hand moves fast while the fret hand is absent
C15_Witness ==
    /\ guitarCalls > 0
    /\ guitarObs.roles = [strumHand |-> "right", fretHand |-> "left"]
    /\ guitarObs.lastStrumTime > 0
    /\ perfNow - guitarObs.lastStrumTime >= 150
    /\ guitarObs.data.leftHand = NoGuitarHand
    /\ guitarObs.data.rightHand # NoGuitarHand

\* C29 -- Guitar role invariant.  strumHand and fretHand are both unassigned or
\* are the two different hands, never the same hand and never one without the
\* other; and once assigned, no call of process unassigns them.
C29_GuitarRoles ==
    /\ guitarRoles \in {NoRoles,
                        [strumHand |-> "left", fretHand |-> "right"],
                        [strumHand |-> "right", fretHand |-> "left"]}
    /\ guitarObs.roles.strumHand # "none" => guitarRoles.strumHand # "none"
    /\ guitarObs.roles.fretHand # "none" => guitarRoles.fretHand # "none"

\* the roles were left-strums, and the call swapped them
C29_Witness ==
    /\ guitarObs.roles = [strumHand |-> "left", fretHand |-> "right"]
    /\ guitarRoles = [strumHand |-> "right", fretHand |-> "left"]

\* C16 -- Guitar index ranges.  Every strum event has stringIndex in 0..5 and
\* fretPosition in 0..12.
C16_GuitarIndexRanges ==
    \A n \in DOMAIN guitarEvents :
        /\ guitarEvents[n].stringIndex \in 0..5
        /\ guitarEvents[n].fretPosition \in 0..12

-----------------------------------------------------------------------------
(* The theremin and the strings handler fed with frames *)

NextTheremin ==
    \E d \in ToneSteps, l \in ToneLeftHands, r \in ToneRightHands :
        /\ ProcessTheremin(d, l, r)
        /\ thereminObs' = ObserveTone(thereminObs, l, r)
        /\ UNCHANGED <<trigVars, trigHist, kinVars, stageVars, drumVars, drumObs,
                       pianoVars, guitarVars, stringsVars, padsVars>>

SpecTheremin == Init /\ [][NextTheremin]_vars

\* C17 -- Theremin terminal event.  A frame with a hand returns an active
\* event; the first hand-absent frame after a frame with a hand returns an
\* event with isActive false and volume 0; every other hand-absent frame
\* (further frames of the run, or no hand ever seen) returns null.
C17_ThereminTerminalEvent ==
    thereminCalls > 0 =>
        /\ thereminObs.present => (thereminOut # Null /\ thereminOut.isActive)
        /\ (~thereminObs.present /\ thereminObs.prev)
           => /\ thereminOut # Null
              /\ ~thereminOut.isActive
              /\ thereminOut.volume = 0
        /\ (~thereminObs.present /\ ~thereminObs.prev) => thereminOut = Null

\* the hand is lost after a frame that had one; the terminal event keeps the
\* last pitch
C17_Witness ==
    /\ thereminCalls > 1
    /\ ~thereminObs.present /\ thereminObs.prev
    /\ thereminOut # Null
    /\ thereminOut.pitch = 0

NextStrings ==
    \E d \in ToneSteps, l \in ToneLeftHands, r \in ToneRightHands :
        /\ ProcessStrings(d, l, r)
        /\ stringsObs' = ObserveTone(stringsObs, l, r)
        /\ UNCHANGED <<trigVars, trigHist, kinVars, stageVars, drumVars, drumObs,
                       pianoVars, guitarVars, thereminVars, padsVars>>

SpecStrings == Init /\ [][NextStrings]_vars

\* C18 -- Strings terminal release.  The first hand-absent frame after a frame
\* with a hand returns a release event with intensity 0, and the further
\* hand-absent frames return null.
C18_StringsTerminalRelease ==
    stringsCalls > 0 =>
        /\ (~stringsObs.present /\ stringsObs.prev)
           => /\ stringsOut # Null
              /\ stringsOut.type = "release"
              /\ stringsOut.intensity = 0
        /\ (~stringsObs.present /\ ~stringsObs.prev) => stringsOut = Null

-----------------------------------------------------------------------------
(* The pads handler fed with frames *)

NextPads ==
    \E d \in PadSteps, l \in PadLeftHands, r \in PadRightHands :
        /\ ProcessPads(d, l, r)
        /\ padsObs' = ObservePads(l, r)
        /\ UNCHANGED <<trigVars, trigHist, kinVars, stageVars, drumVars, drumObs,
                       pianoVars, guitarVars, thereminVars, stringsVars>>

SpecPads == Init /\ [][NextPads]_vars

-----------------------------------------------------------------------------
(* Continuous control under the cooldown *)

\* C20 -- Zero cooldown for continuous control.  canTrigger(id, 'theremin')
\* returns true on every call, however little time has passed since the
\* identifier's previous trigger (here: an accepted theremin trigger).
C20_ThereminZeroCooldown ==
    ( /\ lastCall.op = "canTrigger" /\ lastCall.cls = "theremin"
      /\ accepted[lastCall.id].n > 0 /\ accepted[lastCall.id].cls = "theremin" )
    => lastCall.ret

-----------------------------------------------------------------------------
(* Explicit reset between uses of the trigger-control primitives *)

ResetSteps == {20, 100}
ResetClasses == {"piano"}

\* the calls leave the other history variables alone
Observed(op, id, k) ==
    /\ trigObs' = ObserveTrigger(op, id, k, lastCall'.ret)
    /\ UNCHANGED <<now, accepted, passed, bufHist, kinVars, stageVars, drumVars, gestVars>>

NextReset ==
    \/ \E d \in ResetSteps :
          now + d <= ResetHorizon /\ Tick(d) /\ UNCHANGED <<trigVars, trigHist, kinVars, stageVars, drumVars, gestVars>>
    \/ \E id \in Ids, c \in ResetClasses : CanTrigger(id, c) /\ Observed("canTrigger", id, NoKey)
    \/ \E k \in {0, MaxKey} : ShouldRetrigger("a", k) /\ Observed("shouldRetrigger", "a", k)
    \/ UpdateBuffer("a", TRUE) /\ Observed("updateBuffer", "a", NoKey)
    \/ IsCleanTrigger("a") /\ Observed("isCleanTrigger", "a", NoKey)
    \/ \E id \in Ids : ClearTriggerState(id) /\ Observed("clearTriggerState", id, NoKey)
    \/ ClearAllTriggerStates /\ Observed("clearAllTriggerStates", "a", NoKey)

SpecReset == Init /\ [][NextReset]_vars

\* C21 -- Explicit reset.  The first call on an identifier after
\* clearAllTriggerStates() or after its own clearTriggerState(id) behaves as on
\* a never-used identifier: shouldRetrigger returns true for any k,
\* isCleanTrigger returns true, and canTrigger returns what it returns for an
\* identifier with no recorded trigger; clearTriggerState(id) leaves the state
\* of the other identifiers as it was.
C21_ExplicitReset ==
    /\ trigObs.wasCleared
       => /\ lastCall.op = "shouldRetrigger" => lastCall.ret
          /\ lastCall.op = "isCleanTrigger" => lastCall.ret
          /\ lastCall.op = "canTrigger"
             => (lastCall.ret <=> canTrigger(EmptyMap, lastCall.id, lastCall.cls, trigObs.at).ret)
    /\ lastCall.op = "clearAllTriggerStates" => DOMAIN triggerStates = {}
    /\ lastCall.op = "clearTriggerState"
       => /\ lastCall.id \notin DOMAIN triggerStates
          /\ \A x \in DOMAIN trigObs.before \ {lastCall.id} :
                x \in DOMAIN triggerStates /\ triggerStates[x] = trigObs.before[x]

\* a trigger is recorded for "a", "a" is cleared while "b" keeps a recorded
\* trigger, and canTrigger("a") is accepted although less than the cooldown
\* has passed since the trigger recorded before the reset
C21_Witness ==
    /\ trigObs.wasCleared
    /\ lastCall.op = "canTrigger" /\ lastCall.id = "a" /\ lastCall.ret
    /\ trigObs.stale["a"] > 0 /\ trigObs.at - trigObs.stale["a"] < 50
    /\ "b" \in DOMAIN triggerStates /\ triggerStates["b"].lastTriggerTime > 0

-----------------------------------------------------------------------------
(* shouldTriggerNote called over time *)

NoteSteps == {10, 50}

NextNote ==
    \/ \E d \in NoteSteps :
          Tick(d) /\ UNCHANGED <<trigVars, trigHist, kinVars, stageVars, drumVars, gestVars>>
    \/ \E k \in KeyIdx :
          ShouldTriggerNote("a", k, "piano") /\ Observed("shouldTriggerNote", "a", k)

SpecNote == Init /\ [][NextNote]_vars

\* C26 -- Combined note trigger.  After an identifier's first accepted note, a
\* shouldTriggerNote call returns true exactly when its key differs from the
\* key of the last accepted note and at least the class's cooldown has passed
\* since the last accepted note; so a refused call does not postpone a later
\* call that meets both conditions.
C26_ShouldTriggerNote ==
    (lastCall.op = "shouldTriggerNote" /\ trigObs.noteBefore[lastCall.id].n > 0)
    => (lastCall.ret <=>
            /\ lastCall.key # trigObs.noteBefore[lastCall.id].key
            /\ trigObs.at - trigObs.noteBefore[lastCall.id].t >= CooldownOf(lastCall.cls))

-----------------------------------------------------------------------------
(* The trigger-control primitives used side by side on two identifiers *)

PrimitiveSteps == {50, 100}

NextPrimitives ==
    \/ \E d \in PrimitiveSteps :
          now + d <= ResetHorizon /\ Tick(d) /\ UNCHANGED <<trigVars, trigHist, kinVars, stageVars, drumVars, gestVars>>
    \/ \E id \in Ids : CanTrigger(id, "piano") /\ Observed("canTrigger", id, NoKey)
    \/ \E id \in Ids : RecordTrigger(id) /\ Observed("recordTrigger", id, NoKey)
    \/ \E id \in Ids : ShouldRetrigger(id, 0) /\ Observed("shouldRetrigger", id, 0)
    \/ \E id \in Ids : UpdateBuffer(id, TRUE) /\ Observed("updateBuffer", id, NoKey)

SpecPrimitives == Init /\ [][NextPrimitives]_vars

\* the entry of identifier x in map m, as getState would give it
EntryOf(m, x) == IF x \in DOMAIN m THEN m[x] ELSE FreshState

\* C28 -- Identifier and primitive independence.  A call of canTrigger,
\* recordTrigger, shouldRetrigger or updateBuffer on one identifier leaves every
\* other identifier's entry as it was (absent entries stay absent); canTrigger
\* and recordTrigger change at most lastTriggerTime of their own entry,
\* shouldRetrigger at most lastKeyIndex, updateBuffer at most the buffer.
C28_Independence ==
    lastCall.op \in {"canTrigger", "recordTrigger", "shouldRetrigger", "updateBuffer"}
    => LET old == EntryOf(trigObs.before, lastCall.id)
           new == triggerStates[lastCall.id]
       IN  /\ \A x \in Ids \ {lastCall.id} :
                 /\ x \in DOMAIN triggerStates <=> x \in DOMAIN trigObs.before
                 /\ x \in DOMAIN triggerStates => triggerStates[x] = trigObs.before[x]
           /\ lastCall.op \in {"canTrigger", "recordTrigger"}
              => new.lastKeyIndex = old.lastKeyIndex /\ new.buffer = old.buffer
           /\ lastCall.op = "shouldRetrigger"
              => new.lastTriggerTime = old.lastTriggerTime /\ new.buffer = old.buffer
           /\ lastCall.op = "updateBuffer"
              => new.lastTriggerTime = old.lastTriggerTime /\ new.lastKeyIndex = old.lastKeyIndex

\* recordTrigger stamps a, whose key and buffer are set, while b holds an
\* earlier trigger time, a key and a contact frame of its own
C28_Witness ==
    /\ lastCall.op = "recordTrigger" /\ lastCall.id = "a"
    /\ triggerStates["a"].lastTriggerTime > EntryOf(trigObs.before, "a").lastTriggerTime
    /\ triggerStates["a"].lastKeyIndex # NoKey
    /\ \E n \in DOMAIN triggerStates["a"].buffer : triggerStates["a"].buffer[n]
    /\ "b" \in DOMAIN triggerStates
    /\ triggerStates["b"].lastTriggerTime > 0
    /\ triggerStates["b"].lastTriggerTime < triggerStates["a"].lastTriggerTime
    /\ triggerStates["b"].lastKeyIndex # NoKey

-----------------------------------------------------------------------------
(* The six gesture handlers, one instrument per session *)

\* the number of process calls made on the handlers other than h
OtherCalls(h) ==
    (IF h = "drums" THEN 0 ELSE drumCalls) + (IF h = "piano" THEN 0 ELSE pianoCalls)
    + (IF h = "guitar" THEN 0 ELSE guitarCalls) + (IF h = "theremin" THEN 0 ELSE thereminCalls)
    + (IF h = "strings" THEN 0 ELSE stringsCalls) + (IF h = "pads" THEN 0 ELSE padsCalls)

NextValues ==
    \/ OtherCalls("drums") = 0 /\ NextDrums
    \/ OtherCalls("piano") = 0 /\ NextPiano
    \/ OtherCalls("guitar") = 0 /\ NextGuitar
    \/ OtherCalls("theremin") = 0 /\ NextTheremin
    \/ OtherCalls("strings") = 0 /\ NextStrings
    \/ OtherCalls("pads") = 0 /\ NextPads

SpecValues == Init /\ [][NextValues]_vars

\* C22 -- Event value range.  Every event of the drum, piano and guitar
\* handlers has a velocity in [0,1] (fiftieths for drums, thirtieths for piano
\* and guitar), a piano release has velocity 0, and every theremin, strings and
\* pads result has its vibrato or intensity in [0,1] (twentieths, squares of
\* thirtieths, fifths), whatever the finger velocities of the input.
C22_EventValueRange ==
    /\ \A n \in DOMAIN drumEvents : drumEvents[n].velocity50 \in 0..50
    /\ \A e \in pianoEvents :
          /\ e.velocity30 \in 0..30
          /\ e.type = "release" => e.velocity30 = 0
    /\ \A n \in DOMAIN guitarEvents : guitarEvents[n].velocity30 \in 0..30
    /\ thereminOut # Null => thereminOut.vibrato20 \in 0..20
    /\ stringsOut # Null => stringsOut.intensity \in 0..900
    /\ padsOut # Null => padsOut.intensity5 \in 0..5

\* a drum hit by a finger falling faster than the ceiling of 5.0
C22_Witness ==
    \E n \in DOMAIN drumEvents :
        /\ drumEvents[n].hand = "right"
        /\ drumEvents[n].velocity50 = 50

-----------------------------------------------------------------------------
(* The Stage fed with dense and irregular frames *)

\* frames of a dense session
MaxDenseFrames == 4

\* time between two detections: 15 ms apart up to 70 ms apart
DenseSteps == {15, 30, 70}

\* one hand anywhere, or two hands
DenseLandmarks ==
    {<<p>> : p \in {SA, SB}} \cup {<<p, q>> : p \in StagePoints, q \in {SA, SB}}

DenseRoles == {"DRUMS", "GUITAR"}

InitDense ==
    /\ InitTrigger /\ InitKinematics /\ InitStage /\ InitDrums /\ InitPiano /\ InitGuitar
    /\ InitTone /\ InitPads
    /\ role \in DenseRoles /\ rev = "current"

NextDense ==
    \E d \in DenseSteps, landmarks \in DenseLandmarks :
        /\ stageFrames < MaxDenseFrames
        /\ PredictWebcam(d, landmarks, TRUE)
        /\ UNCHANGED <<now, trigVars, trigHist, kinVars, drumVars, gestVars>>

SpecDense == InitDense /\ [][NextDense]_vars

\* C27 -- Stage per-hand cooldown.  For each hand index, two successive
\* dispatches (note or guitar mute) are at least the role's cooldown apart,
\* whatever the frame times; and whether a hand index dispatches in a frame
\* is what processHand gives on that index's own state alone, so a dispatch of
\* the other index does not delay it.
C27_PerHandCooldown ==
    /\ \A i \in HandIdx :
          stageHist[i].prev >= 0
          => stageHist[i].last - stageHist[i].prev >= StageConfig(role, rev).cooldown
    /\ \A i \in DOMAIN stageObs :
          stageObs[i].had => IsDispatch(stageOut[i]) = IsDispatch(Replayed(i, TRUE).out)

\* index 0 dispatches for the second time, exactly a cooldown or more after
\* its first, in a frame less than a cooldown after index 1 dispatched
C27_Witness ==
    /\ stageHist[0].last = wallNow
    /\ stageHist[0].prev >= 0
    /\ stageHist[1].last >= 0
    /\ stageHist[1].last < wallNow
    /\ wallNow - stageHist[1].last < StageConfig(role, rev).cooldown

-----------------------------------------------------------------------------
(* The Stage's visual flags: frames interleaved with the timer callbacks *)

\* frames of a session with its timers
MaxVisualFrames == 4

VisualSteps == {30, 70}

\* two hands, moving together or apart
VisualLandmarks == {<<p, q>> : p \in StagePoints, q \in {SA, SB}}

\* a timer callback as a step of the session
VisualTimerRuns ==
    ClearTriggerVisual /\ UNCHANGED <<now, trigVars, trigHist, kinVars, drumVars, gestVars>>
MuteTimerRuns ==
    ClearIsMuted /\ UNCHANGED <<now, trigVars, trigHist, kinVars, drumVars, gestVars>>

NextVisual ==
    \/ \E d \in VisualSteps, landmarks \in VisualLandmarks :
          /\ stageFrames < MaxVisualFrames
          /\ PredictWebcam(d, landmarks, TRUE)
          /\ UNCHANGED <<now, trigVars, trigHist, kinVars, drumVars, gestVars>>
    \/ VisualTimerRuns
    \/ MuteTimerRuns

\* the browser runs every armed timer's callback: each setTimeout is a task of
\* the event loop, which nothing in Stage cancels
SpecVisual ==
    /\ InitDense
    /\ [][NextVisual]_vars
    /\ WF_vars(VisualTimerRuns)
    /\ WF_vars(MuteTimerRuns)

\* a frame in which a hand plays a note
NoteFrame ==
    /\ stageFrames' = stageFrames + 1
    /\ \E i \in DOMAIN stageOut' : stageOut'[i].note

\* C24 -- Visual trigger auto-clear.  Every frame in which a hand plays a note
\* leaves triggerVisual true with a reset armed 100 ms after the frame; and
\* however the frames of both hands and the timer callbacks interleave, once
\* the frames have stopped triggering the flag becomes false and stays false.
C24_VisualAutoClear ==
    /\ [][NoteFrame => /\ triggerVisual'
                       /\ visualTimers' # <<>>
                       /\ visualTimers'[Len(visualTimers')] = wallNow' + VISUAL_MS]_vars
    /\ <>[](~triggerVisual)

\* the flag is up with two resets pending that were armed in different frames,
\* by a hand index that has dispatched twice
C24_Witness ==
    /\ triggerVisual
    /\ Len(visualTimers) >= 2
    /\ visualTimers[1] # visualTimers[Len(visualTimers)]
    /\ \E i \in HandIdx : stageHist[i].prev >= 0

====
